---- MODULE Spec2Model ----
(***************************************************************************)
(* Verification model of the Bible_code scripts: the text normalizers, the *)
(* spreadsheet verse extractor and the subhead / phrase matchers.          *)
(*                                                                         *)
(* Text is modelled as a sequence of characters (one-character strings;    *)
(* the characters U+2019, U+2018 and the grave accent are the atoms        *)
(* "RSQ", "LSQ" and "GRV").                                               *)
(***************************************************************************)
EXTENDS Integers, Sequences, FiniteSets, TLC

(***************************************************************************)
(* Bounds of the model.                                                    *)
(***************************************************************************)
MaxLen == 4

MaxRows == 5

\* rows of a sheet a matcher's single turn is followed on
MaxMatchRows == 4

\* rows of a sheet and phrases of a list a matcher's whole loop is followed on
MaxCountRows == 4

MaxPhrases == 3

VARIABLES
    norm_pc,      \* "start", "loaded", "once" (applied), "twice" (applied again)
    norm_in,      \* the string handed to a normalizer
    norm_fn,      \* which normalizer was applied ("none" before any)
    norm_out,     \* its result
    norm_twice,   \* the result of applying it to its own result
    ext_pc,            \* extract_xlsx_structure: "rows" (in the loop), "done",
                       \* "returned"
    rows,              \* the spreadsheet rows read so far, in order
    row_number,
    current_chapter,
    current_verse,
    verse_text_parts,
    subheads,          \* (cleaned_text, row_number, original_text)
    verses,            \* (reference, verse_text, row_number)
    chapters,          \* (chapter_number, row_number)
    script,            \* the script that runs: "subheadfinder", "DatabaseBuilder"
    phrases,           \* the phrases the matcher's loop has taken, in order
    results,
    not_found,
    trail              \* per phrase: what the loop body did with it

norm_vars == <<norm_pc, norm_in, norm_fn, norm_out, norm_twice>>

ext_vars == <<script, ext_pc, rows, row_number, current_chapter, current_verse,
              verse_text_parts, subheads, verses, chapters>>

match_vars == <<phrases, results, not_found, trail>>

VARIABLES
    output_file        \* process_single_pair: the rows written to the CSV file
                       \* (empty before it is written)

report_vars == <<output_file>>

\* The variables of the reporters and of the other scripts, which the
\* normalizers, the extractor and the matchers' loops leave alone.
VARIABLES
    rev_pc,              \* 30DatabaseBuilder_revised: "start", "rows" (the loop
                         \* over df.iterrows), "files" (the loop over the TXT
                         \* files), "done", "raised" (ended by an exception)
    rev_run,             \* how many times the script has been started
    rev_sheet,           \* the rows of the XLSX file
    rev_txt,             \* the TXT files of the folder, in the order of glob
    rev_idx,             \* rows read so far
    rev_current_chapter, \* <<>> for None, <<content>> otherwise
    rev_current_verse,   \* <<>> for None, <<content>> otherwise
    rev_current_body,
    rev_verses,          \* (current_chapter, current_verse, body)
    rev_file,            \* TXT files the loop has taken so far
    rev_dir,             \* the CSV files of the folder: (name, rows, the run
                         \* that wrote the file)
    rev_written,         \* the names of the CSV files this run has written
    rev_output_rows      \* output_rows of the files this run has matched:
                         \* (name, rows)

rev_vars == <<rev_pc, rev_run, rev_sheet, rev_txt, rev_idx, rev_current_chapter,
              rev_current_verse, rev_current_body, rev_verses, rev_file,
              rev_dir, rev_written, rev_output_rows>>

VARIABLES
    ann_script,          \* the annotator that runs ("none" before any)
    ann_pc,              \* main: "start", "loop" (over file_pairs), "open" and
                         \* "place" (inside process_file_pair), "done", "exit"
                         \* (sys.exit(1))
    ann_ref,             \* ref_values: (key, value)
    ann_folder,          \* the PDF files of the folder, in the order of glob
    ann_pairs,           \* file_pairs
    ann_idx,             \* pairs main's loop is done with
    paged_comments,
    ann_at,              \* entries the placement loop is done with
    color_counts,        \* expected_counts in pdf_annotator_enhancements
    added_color_counts,  \* added_counts in pdf_annotator_enhancements
    ann_placed,          \* the entries whose annotation is in the PDF
    ann_notes,           \* per pair that reached doc.save: the sheet, the
                         \* annotations in the PDF and the summary
    total_processed,
    total_failed,
    annotations_added    \* process_file_pair: the counter of the placement loop

ann_vars == <<ann_script, ann_pc, ann_ref, ann_folder, ann_pairs, ann_idx,
              paged_comments, ann_at, color_counts, added_color_counts,
              ann_placed, ann_notes, total_processed, total_failed,
              annotations_added>>

VARIABLES
    job_script,          \* the script whose per-file loop runs ("none" before)
    job_pc,              \* "start", "loop", "done", "raised" (ended by an
                         \* exception)
    job_run,             \* how many times the script has been started
    job_files,           \* the files the loop runs over, in order
    job_at,              \* files the loop is done with
    job_dir,             \* the output files of the folder
    job_written          \* the output files this run has written

job_vars == <<job_script, job_pc, job_run, job_files, job_at, job_dir,
              job_written>>

VARIABLES
    fm_pc,               \* find_matching_files: "start", "loop", "done"
    fm_script,           \* the script it is of
    fm_files,            \* files = os.listdir('.')
    fm_txt_files,        \* txt_files
    fm_xlsx_files,       \* xlsx_files
    fm_at,               \* TXT files the loop is done with
    matches              \* the pairs found so far

fm_vars == <<fm_pc, fm_script, fm_files, fm_txt_files, fm_xlsx_files, fm_at,
             matches>>

VARIABLES
    std_pc,              \* load_standards: "lines", "done"
    std_lines,           \* the lines of Standards.txt read so far
    in_coords,
    standards,
    variance,
    std_checked          \* the calls of check_within_standards: (x_coord,
                         \* answer)

std_vars == <<std_pc, std_lines, in_coords, standards, variance, std_checked>>

\* The variables of the scripts modelled after the revised matcher.
tail_vars == <<ann_vars, job_vars, fm_vars, std_vars>>

later_vars == <<report_vars, rev_vars, tail_vars>>

(***************************************************************************)
(* Characters and Python's character classes.                              *)
(***************************************************************************)
SP == " "
TAB == "\t"
DQ == "\""

\* str.isdigit()
IsDigit(c) == c \in {"0", "1", "2", "3", "4", "5", "6", "7", "8", "9"}

\* the regular expression class \s, and what str.strip() removes
IsSpace(c) == c \in {SP, TAB}

UpperLetters == {"A", "B", "H"}

LowerLetters == {"a", "b", "c", "d", "e", "f", "g", "h", "x", "y"}

\* the regular expression class \w
IsWordChar(c) == c \in UpperLetters \cup LowerLetters \/ IsDigit(c) \/ c = "_"

\* apostrophe_variants of normalize_apostrophes: U+2018, U+2019, the ASCII
\* apostrophe and the grave accent ("GRV"), standing for all ten
ApostropheVariants == {"LSQ", "RSQ", "'", "GRV"}

\* The characters the substitution of clean_text_content keeps:
\* [\w\s\-:;,.!?()'] and the apostrophe variants. The double quotes are not
\* among them.
Whitelisted(c) ==
    \/ IsWordChar(c)
    \/ IsSpace(c)
    \/ c \in {"-", ":", ";", ",", ".", "!", "?", "(", ")"}
    \/ c \in ApostropheVariants

(***************************************************************************)
(* String helpers (Python built-ins).                                      *)
(***************************************************************************)
SetMin(S) == CHOOSE m \in S : \A n \in S : m <= n

SetMax(S) == CHOOSE m \in S : \A n \in S : m >= n

\* str.lstrip()
RECURSIVE LStrip(_)
LStrip(t) == IF t # <<>> /\ IsSpace(Head(t)) THEN LStrip(Tail(t)) ELSE t

\* str.rstrip()
RECURSIVE RStrip(_)
RStrip(t) ==
    IF t # <<>> /\ IsSpace(t[Len(t)]) THEN RStrip(SubSeq(t, 1, Len(t) - 1)) ELSE t

\* str.strip()
Strip(t) == RStrip(LStrip(t))

\* re.sub(r'\s+', ' ', text)
CollapseWhitespace(t) ==
    LET F[i \in 0..Len(t)] ==
            IF i = 0 THEN <<>>
            ELSE IF IsSpace(t[i])
                 THEN IF i > 1 /\ IsSpace(t[i - 1]) THEN F[i - 1]
                      ELSE Append(F[i - 1], SP)
                 ELSE Append(F[i - 1], t[i])
    IN  F[Len(t)]

\* str.replace(old, new) for a one-character old
ReplaceChar(t, old, new) == [i \in 1..Len(t) |-> IF t[i] = old THEN new ELSE t[i]]

\* str.replace(old, '') for a one-character old
RemoveChar(t, old) == LET Keep(c) == c # old IN SelectSeq(t, Keep)

LowerChar(c) ==
    CASE c = "A" -> "a"
      [] c = "B" -> "b"
      [] c = "H" -> "h"
      [] OTHER -> c

\* str.lower()
Lower(t) == [i \in 1..Len(t) |-> LowerChar(t[i])]

\* a in b, for strings
IsSubstring(a, b) == \E i \in 0..(Len(b) - Len(a)) : SubSeq(b, i + 1, i + Len(a)) = a

\* str.split(): the words between runs of whitespace. SplitFrom reads t from
\* position i on, word being the characters of the word it is in.
RECURSIVE SplitFrom(_, _, _)
SplitFrom(t, i, word) ==
    IF i > Len(t) THEN IF word = <<>> THEN <<>> ELSE <<word>>
    ELSE IF IsSpace(t[i])
         THEN IF word = <<>> THEN SplitFrom(t, i + 1, <<>>)
              ELSE <<word>> \o SplitFrom(t, i + 1, <<>>)
         ELSE SplitFrom(t, i + 1, Append(word, t[i]))

Split(t) == SplitFrom(t, 1, <<>>)

\* set(text.split())
WordSet(t) == LET w == Split(t) IN {w[i] : i \in 1..Len(w)}

\* ''.join(c for c in content if c.isdigit())
Digits(t) == SelectSeq(t, IsDigit)

(***************************************************************************)
(* The normalizers.                                                        *)
(***************************************************************************)
\* clean_text_content with the blanks trimmed before the substitution
\* instead of after it
clean_text_content_strip_first(text) ==
    IF text = <<>> THEN <<>>
    ELSE CollapseWhitespace(SelectSeq(Strip(text), Whitelisted))

\* 30_subheadfinder.clean_text_content (30DatabaseBuilder's is the same text)
clean_text_content(text) ==
    IF text = <<>> THEN <<>>
    ELSE Strip(CollapseWhitespace(SelectSeq(text, Whitelisted)))

\* 30_subheadfinder.normalize_apostrophes (30DatabaseBuilder's is the same)
normalize_apostrophes(text) ==
    IF text = <<>> THEN <<>>
    ELSE [i \in 1..Len(text) |->
             IF text[i] \in ApostropheVariants THEN "'" ELSE text[i]]

\* csv_spans_matcher.normalize_apostrophes
spans_normalize_apostrophes(text) ==
    Strip(ReplaceChar(ReplaceChar(text, "RSQ", "'"), "LSQ", "'"))

\* match_subheads_to_verses: normalize_apostrophes(clean_text_content(x))
subhead_normalize(text) == normalize_apostrophes(clean_text_content(text))

\* match_phrases_to_verses:
\* normalize_apostrophes(clean_text_content(x).lower())
phrase_normalize(text) == normalize_apostrophes(Lower(clean_text_content(text)))

NormFns == {"clean_text_content", "normalize_apostrophes", "subhead_normalize",
            "phrase_normalize", "spans_normalize_apostrophes"}

ApplyNorm(fn, text) ==
    CASE fn = "clean_text_content" -> clean_text_content(text)
      [] fn = "normalize_apostrophes" -> normalize_apostrophes(text)
      [] fn = "subhead_normalize" -> subhead_normalize(text)
      [] fn = "phrase_normalize" -> phrase_normalize(text)
      [] fn = "spans_normalize_apostrophes" -> spans_normalize_apostrophes(text)

\* The alphabet the normalized strings are drawn from: a letter, a capital,
\* space, tab, two apostrophe variants, a double quote, punctuation.
NormAlphabet == {"a", "B", SP, TAB, "'", "RSQ", DQ, "."}

NormStrings == UNION {[1..n -> NormAlphabet] : n \in 0..MaxLen}

InitNorm ==
    /\ norm_pc = "start"
    /\ norm_in = <<>>
    /\ norm_fn = "none"
    /\ norm_out = <<>>
    /\ norm_twice = <<>>

\* A string arrives.
NormLoad ==
    /\ norm_pc = "start"
    /\ norm_pc' = "loaded"
    /\ \E x \in NormStrings : norm_in' = x
    /\ UNCHANGED <<norm_fn, norm_out, norm_twice>>

\* A normalizer is applied to it.
NormApply(fn) ==
    /\ norm_pc = "loaded"
    /\ norm_pc' = "once"
    /\ norm_fn' = fn
    /\ norm_out' = ApplyNorm(fn, norm_in)
    /\ UNCHANGED <<norm_in, norm_twice>>

\* The same normalizer is applied to its own result.
NormReapply ==
    /\ norm_pc = "once"
    /\ norm_pc' = "twice"
    /\ norm_twice' = ApplyNorm(norm_fn, norm_out)
    /\ UNCHANGED <<norm_in, norm_fn, norm_out>>

\* The extractor's and the matchers' variables, which a normalizer leaves
\* alone.
OtherThanNorm ==
    <<script, ext_pc, rows, row_number, current_chapter, current_verse,
      verse_text_parts, subheads, verses, chapters, phrases, results,
      not_found, trail, later_vars>>

NextNorm ==
    \/ NormLoad /\ UNCHANGED OtherThanNorm
    \/ (\E fn \in NormFns : NormApply(fn)) /\ UNCHANGED OtherThanNorm
    \/ NormReapply /\ UNCHANGED OtherThanNorm

(***************************************************************************)
(* extract_xlsx_structure: the verse extractor of 30_subheadfinder. The    *)
(* one of 30DatabaseBuilder is the same loop without the SUBHEAD branch    *)
(* and returns the same verses and chapters.                               *)
(*                                                                         *)
(* A row is its row-type label (column B) and its content (column C, as    *)
(* str() gives it, "" for an empty cell). The label is one of the four     *)
(* the loop looks for, or "OTHER" for a row it passes over.                *)
(***************************************************************************)
\* current_verse = None
NoVerse == <<>>

\* " ".join(verse_text_parts)
RECURSIVE JoinParts(_)
JoinParts(parts) ==
    IF parts = <<>> THEN <<>>
    ELSE IF Len(parts) = 1 THEN parts[1]
    ELSE parts[1] \o <<SP>> \o JoinParts(Tail(parts))

\* f"{current_book} {current_chapter}:{current_verse}", the book being that
\* of the file
Reference(chapter, verse) == [chapter |-> chapter, verse |-> verse]

\* "Save previous verse if exists" / "Add the last verse"
SaveVerse(vs, chapter, verse, parts, rown) ==
    IF verse # NoVerse /\ parts # <<>>
    THEN LET full_text == Strip(JoinParts(parts))
         IN  IF full_text # <<>>
             THEN Append(vs, [reference |-> Reference(chapter, verse),
                              text |-> full_text,
                              row |-> rown])
             ELSE vs
    ELSE vs

\* The body of the loop over ws.iter_rows for one row.
ExtractRow(row) ==
    /\ ext_pc = "rows"
    /\ rows' = Append(rows, row)
    /\ row_number' = row_number + 1
    /\ UNCHANGED <<ext_pc, script>>
    /\ LET row_type == row.row_type
           content == row.content
       IN  IF script = "subheadfinder" /\ row_type = "SUBHEAD" /\ content # <<>>
           THEN LET cleaned_content == clean_text_content(content)
                IN  /\ subheads' =
                          IF cleaned_content # <<>>
                          THEN Append(subheads, [cleaned |-> cleaned_content,
                                                 row |-> row_number',
                                                 original |-> content])
                          ELSE subheads
                    /\ UNCHANGED <<current_chapter, current_verse,
                                   verse_text_parts, verses, chapters>>
           ELSE IF row_type = "CHAPTER NUMBERS" /\ Strip(content) # <<>>
           THEN LET chapter_match == Digits(content)
                IN  /\ current_chapter' =
                          IF chapter_match # <<>> THEN chapter_match
                          ELSE current_chapter
                    /\ chapters' =
                          IF chapter_match # <<>>
                          THEN Append(chapters, [chapter |-> chapter_match,
                                                 row |-> row_number'])
                          ELSE chapters
                    /\ UNCHANGED <<current_verse, verse_text_parts, verses,
                                   subheads>>
           ELSE IF row_type = "VERSE NUMBERS" /\ Strip(content) # <<>>
           THEN LET verse_match == Digits(content)
                IN  /\ verses' = SaveVerse(verses, current_chapter,
                                           current_verse, verse_text_parts,
                                           row_number')
                    /\ current_verse' =
                          IF verse_match # <<>> THEN verse_match
                          ELSE current_verse
                    /\ verse_text_parts' = <<>>
                    /\ UNCHANGED <<current_chapter, subheads, chapters>>
           ELSE IF /\ row_type = "SCRIPTURE TEXT"
                   /\ content # <<>>
                   /\ content # <<DQ, DQ>>
           THEN LET clean_content == Strip(RemoveChar(content, DQ))
                IN  /\ verse_text_parts' =
                          IF clean_content # <<>>
                          THEN Append(verse_text_parts, clean_content)
                          ELSE verse_text_parts
                    /\ UNCHANGED <<current_chapter, current_verse, verses,
                                   subheads, chapters>>
           ELSE UNCHANGED <<current_chapter, current_verse, verse_text_parts,
                            verses, subheads, chapters>>

\* ExtractFinish without "Add the last verse"
ExtractFinish_no_last_verse ==
    /\ ext_pc = "rows"
    /\ ext_pc' = "done"
    /\ UNCHANGED <<rows, row_number, current_chapter, current_verse,
                   verse_text_parts, subheads, verses, chapters, script>>

\* After the loop: "Add the last verse", and return.
ExtractFinish ==
    /\ ext_pc = "rows"
    /\ ext_pc' = "done"
    /\ verses' = SaveVerse(verses, current_chapter, current_verse,
                           verse_text_parts, row_number)
    /\ UNCHANGED <<rows, row_number, current_chapter, current_verse,
                   verse_text_parts, subheads, chapters, script>>

\* "return subheads, verses, chapters": the caller holds the three lists, the
\* worksheet and the loop's variables are gone.
ExtractReturn ==
    /\ ext_pc = "done"
    /\ ext_pc' = "returned"
    /\ rows' = <<>>
    /\ row_number' = 0
    /\ current_chapter' = <<"1">>
    /\ current_verse' = NoVerse
    /\ verse_text_parts' = <<>>
    /\ UNCHANGED <<subheads, verses, chapters, script>>

\* find_verse_after_subhead: the first verse whose row is after the subhead's
NoMatch == [reference |-> Reference(<<>>, <<>>), text |-> <<>>, row |-> 0]

find_verse_after_subhead(subhead_row, vs) ==
    LET later == {i \in 1..Len(vs) : vs[i].row > subhead_row}
    IN  IF later = {} THEN NoMatch ELSE vs[SetMin(later)]

Scripts == {"subheadfinder", "DatabaseBuilder"}

InitExtract ==
    /\ script \in Scripts
    /\ ext_pc = "rows"
    /\ rows = <<>>
    /\ row_number = 0
    /\ current_chapter = <<"1">>
    /\ current_verse = NoVerse
    /\ verse_text_parts = <<>>
    /\ subheads = <<>>
    /\ verses = <<>>
    /\ chapters = <<>>

Row(row_type, content) == [row_type |-> row_type, content |-> content]

\* The rows a sheet is made of when the extractor is checked.
ExtractRowChoices ==
    {Row("SUBHEAD", <<"H">>),
     Row("CHAPTER NUMBERS", <<"x", "2">>), Row("CHAPTER NUMBERS", <<"x">>),
     Row("VERSE NUMBERS", <<"1">>), Row("VERSE NUMBERS", <<"2">>),
     Row("VERSE NUMBERS", <<"x">>),
     Row("SCRIPTURE TEXT", <<"a">>), Row("SCRIPTURE TEXT", <<DQ, DQ>>)}

ReadSheetRow ==
    /\ Len(rows) < MaxRows
    /\ \E row \in ExtractRowChoices : ExtractRow(row)

NextExtract ==
    \/ ReadSheetRow /\ UNCHANGED <<norm_vars, match_vars, later_vars>>
    \/ ExtractFinish /\ UNCHANGED <<norm_vars, match_vars, later_vars>>
    \/ ExtractReturn /\ UNCHANGED <<norm_vars, match_vars, later_vars>>

(***************************************************************************)
(* The sheet as the claims about the extractor read it: by row position,   *)
(* from the rows themselves.                                               *)
(***************************************************************************)
\* Row i is a verse-number row with something in its cell.
IsVerseNumberRow(i) ==
    rows[i].row_type = "VERSE NUMBERS" /\ Strip(rows[i].content) # <<>>

\* Row i is a scripture-text row holding more than quotes and blanks.
IsNonEmptyTextRow(i) ==
    /\ rows[i].row_type = "SCRIPTURE TEXT"
    /\ \E k \in 1..Len(rows[i].content) :
          rows[i].content[k] # DQ /\ ~IsSpace(rows[i].content[k])

\* Row i is a chapter-number row whose cell holds a digit.
IsChapterRow(i) ==
    rows[i].row_type = "CHAPTER NUMBERS" /\ Digits(rows[i].content) # <<>>

\* The verse-number rows among the first k rows.
MarkerRows(k) == {i \in 1..k : i <= Len(rows) /\ IsVerseNumberRow(i)}

\* A non-empty scripture-text row lies between verse-number row i and the
\* next verse-number row (or the end of the sheet).
FollowedByText(i) ==
    \E j \in (i + 1)..Len(rows) :
        /\ IsNonEmptyTextRow(j)
        /\ \A m \in (i + 1)..(j - 1) : ~IsVerseNumberRow(m)

\* The chapter in force once the first k rows are read.
ChapterAfter(k) ==
    LET cs == {c \in 1..k : IsChapterRow(c)}
    IN  IF cs = {} THEN <<"1">> ELSE Digits(rows[SetMax(cs)].content)

\* The verse number in force once the first k rows are read.
VerseAfter(k) ==
    LET ms == {m \in MarkerRows(k) : Digits(rows[m].content) # <<>>}
    IN  IF ms = {} THEN NoVerse ELSE Digits(rows[SetMax(ms)].content)

\* The verse-number row that opened the verse stored with row r: the last
\* verse-number row before r (0 if there is none).
OwnMarkerRow(r) ==
    LET ms == MarkerRows(r - 1) IN IF ms = {} THEN 0 ELSE SetMax(ms)

\* The last non-empty scripture-text row of the verse opened by verse-number
\* row m (m itself if it has none).
LastTextRow(m) ==
    LET later == {j \in MarkerRows(Len(rows)) : j > m}
        stop == IF later = {} THEN Len(rows) ELSE SetMin(later) - 1
        ts == {j \in (m + 1)..stop : IsNonEmptyTextRow(j)}
    IN  IF ts = {} THEN m ELSE SetMax(ts)

\* The chapters in force while the verse opened by verse-number row m was
\* read, from its verse-number row to its last text row.
ChaptersOf(m) == {ChapterAfter(k) : k \in m..LastTextRow(m)}

\* The verses whose text was flushed by a verse-number row.
FlushedByMarker == {i \in 1..Len(verses) : verses[i].row \in MarkerRows(Len(rows))}

\* The first of the verses numbered in S (none if S is empty).
FirstVerse(S) == IF S = {} THEN NoMatch ELSE verses[SetMin(S)]

(***************************************************************************)
(* C2. For a subhead at row s, find_verse_after_subhead returns the verse  *)
(* that follows the subhead: the first emitted verse whose verse-number    *)
(* row is after s (or, for a subhead inside a verse, that verse), never a  *)
(* verse whose verse-number row and text rows all lie before s.            *)
(***************************************************************************)
C2_VerseFollowsSubhead ==
    ext_pc = "done" =>
        \A k \in 1..Len(subheads) :
            LET s == subheads[k].row
                after == {i \in 1..Len(verses) : OwnMarkerRow(verses[i].row) > s}
                not_before == {i \in 1..Len(verses) :
                                  LastTextRow(OwnMarkerRow(verses[i].row)) > s}
            IN  find_verse_after_subhead(s, verses)
                    \in {FirstVerse(after), FirstVerse(not_before)}

(***************************************************************************)
(* C4 as claimed. The number of emitted verses is the number of            *)
(* verse-number rows followed by a non-empty scripture-text row before the *)
(* next verse-number row or the end, verse-number rows without a digit     *)
(* included.                                                               *)
(***************************************************************************)
C4_CountAllMarkers ==
    ext_pc = "done" =>
        Len(verses) = Cardinality({i \in MarkerRows(Len(rows)) : FollowedByText(i)})

(***************************************************************************)
(* C4 as amended. The number of emitted verses is the number of            *)
(* verse-number rows followed by a non-empty scripture-text row before the *)
(* next verse-number row or the end, counting only the verse-number rows   *)
(* at which a verse number is in force: a row with no digit counts only    *)
(* after an earlier verse-number row with a digit.                         *)
(***************************************************************************)
C4_CountNumberedMarkers ==
    ext_pc = "done" =>
        Len(verses) = Cardinality({i \in MarkerRows(Len(rows)) :
                                      VerseAfter(i) # NoVerse /\ FollowedByText(i)})

\* A sheet whose first verse-number row has no digit and is followed by
\* text, and which goes on to a numbered verse with text: one verse is
\* emitted, for two verse-number rows followed by text.
C4_Witness ==
    /\ ext_pc = "done"
    /\ Len(verses) = 1
    /\ \E i, j \in MarkerRows(Len(rows)) :
          /\ i < j
          /\ VerseAfter(i) = NoVerse /\ FollowedByText(i)
          /\ VerseAfter(j) # NoVerse /\ FollowedByText(j)

(***************************************************************************)
(* C5. A verse flushed by a verse-number row carries the chapter and the   *)
(* verse number that were in force for its own verse-number row and text   *)
(* rows, not the chapter of a chapter-number row that lies between its     *)
(* last text row and the flushing verse-number row.                        *)
(***************************************************************************)
C5_TaggedWithOwnChapter ==
    \A i \in FlushedByMarker :
        LET own == OwnMarkerRow(verses[i].row)
        IN  /\ verses[i].reference.verse = VerseAfter(own)
            /\ verses[i].reference.chapter \in ChaptersOf(own)

(***************************************************************************)
(* C6. No two emitted verses share a (chapter, verse) reference unless two *)
(* verse-number rows carry the same verse number under the same chapter    *)
(* number, and the verses are in source row order.                         *)
(***************************************************************************)
C6_NoDuplicateReference ==
    ext_pc = "done" =>
        /\ \A i, j \in 1..Len(verses) :
              (i < j /\ verses[i].reference = verses[j].reference) =>
                  \E m1, m2 \in MarkerRows(Len(rows)) :
                      /\ m1 < m2
                      /\ VerseAfter(m1) = VerseAfter(m2)
                      /\ ChaptersOf(m1) \cap ChaptersOf(m2) # {}
        /\ \A i, j \in 1..Len(verses) : i < j => verses[i].row <= verses[j].row

(***************************************************************************)
(* C7. Every normalizer is idempotent: applied to its own result it        *)
(* returns that result.                                                    *)
(***************************************************************************)
C7_Idempotent == norm_pc = "twice" => norm_twice = norm_out

\* clean_text_content has removed a double quote and blanks from a string,
\* and has been applied again.
C7_Witness ==
    /\ norm_pc = "twice"
    /\ norm_fn = "clean_text_content"
    /\ \E i \in 1..Len(norm_in) : norm_in[i] = DQ
    /\ Len(norm_out) > 0
    /\ Len(norm_out) + 1 < Len(norm_in)

(***************************************************************************)
(* match_subheads_to_verses (30_subheadfinder).                            *)
(*                                                                         *)
(* The three dictionaries built from subheads are read through the list    *)
(* itself: a dictionary assignment keeps the last value set for a key, the *)
(* list of subhead_normalized_map keeps every row in order, and a          *)
(* dictionary is iterated in the order its keys were first set.            *)
(***************************************************************************)
\* The subhead subhead_clean_map holds for a cleaned text (0: no such key).
CleanMapEntry(cleaned_text) ==
    LET ks == {k \in 1..Len(subheads) : subheads[k].cleaned = cleaned_text}
    IN  IF ks = {} THEN 0 ELSE SetMax(ks)

\* The subheads subhead_normalized_map lists for a normalized text.
NormalizedMatches(normalized_text) ==
    {k \in 1..Len(subheads) :
        normalize_apostrophes(subheads[k].cleaned) = normalized_text}

\* The keys of subhead_normalized_map, each named by the subhead that set it
\* first: their order is the order of iteration, and matches[0] is that
\* subhead.
NormalizedKeys ==
    {k \in 1..Len(subheads) :
        k = SetMin(NormalizedMatches(normalize_apostrophes(subheads[k].cleaned)))}

\* The subhead subhead_original_map holds for an original text (0: none).
OriginalMapEntry(original_text) ==
    LET ks == {k \in 1..Len(subheads) : subheads[k].original = original_text}
    IN  IF ks = {} THEN 0 ELSE SetMax(ks)

SubheadResult(verse, subhead_phrase, original_text) ==
    [reference |-> verse.reference,
     subhead |-> subhead_phrase,
     original_xlsx_subhead |-> original_text]

\* What a strategy appends to results for the subhead k it has picked.
AppendForSubhead(k, subhead_phrase, original_text) ==
    LET verse == find_verse_after_subhead(subheads[k].row, verses)
    IN  IF verse # NoMatch
        THEN <<SubheadResult(verse, subhead_phrase, original_text)>>
        ELSE <<>>

\* Strategy 1 looking the phrase up in subhead_normalized_map.
Strategy1_normalized_map(cleaned_phrase, subhead_phrase) ==
    LET ks == NormalizedMatches(normalize_apostrophes(cleaned_phrase))
    IN  IF ks # {}
        THEN AppendForSubhead(SetMin(ks), subhead_phrase,
                              subheads[SetMin(ks)].original)
        ELSE <<>>

\* Strategy 1: exact match with cleaned text.
Strategy1(cleaned_phrase, subhead_phrase) ==
    LET k == CleanMapEntry(cleaned_phrase)
    IN  IF k # 0
        THEN AppendForSubhead(k, subhead_phrase, subheads[k].original)
        ELSE <<>>

\* Strategy 2 without "not found and".
Strategy2_ignoring_found(found, normalized_phrase, subhead_phrase) ==
    IF NormalizedMatches(normalized_phrase) # {}
    THEN LET k == SetMin(NormalizedMatches(normalized_phrase))
         IN  AppendForSubhead(k, subhead_phrase, subheads[k].original)
    ELSE <<>>

\* Strategy 2: normalized apostrophe matching.
Strategy2(found, normalized_phrase, subhead_phrase) ==
    IF ~found /\ NormalizedMatches(normalized_phrase) # {}
    THEN LET k == SetMin(NormalizedMatches(normalized_phrase))
         IN  AppendForSubhead(k, subhead_phrase, subheads[k].original)
    ELSE <<>>

IntMax(a, b) == IF a >= b THEN a ELSE b

IntMin(a, b) == IF a <= b THEN a ELSE b

\* The divisor of the similarity with min for max.
SimilarityDenominator_min(normalized_phrase, normalized_text) ==
    IntMin(Len(Split(normalized_phrase)), Len(Split(normalized_text)))

\* The divisor of the similarity:
\* max(len(normalized_phrase.split()), len(normalized_text.split()))
SimilarityDenominator(normalized_phrase, normalized_text) ==
    IntMax(Len(Split(normalized_phrase)), Len(Split(normalized_text)))

\* similarity >= 0.7
SimilarityAtLeastThreshold(normalized_phrase, normalized_text) ==
    10 * Cardinality(WordSet(normalized_phrase) \cap WordSet(normalized_text))
        >= 7 * SimilarityDenominator(normalized_phrase, normalized_text)

\* similarity > 0.7, the similarity being the quotient of two small integers
SimilarityAboveThreshold(normalized_phrase, normalized_text) ==
    10 * Cardinality(WordSet(normalized_phrase) \cap WordSet(normalized_text))
        > 7 * SimilarityDenominator(normalized_phrase, normalized_text)

\* The test of strategy 3 without the test of containment.
FuzzyCandidate_no_containment(normalized_phrase, normalized_text) ==
    SimilarityAboveThreshold(normalized_phrase, normalized_text)

\* The test a key of subhead_normalized_map passes in strategy 3.
FuzzyCandidate(normalized_phrase, normalized_text) ==
    /\ \/ IsSubstring(normalized_phrase, normalized_text)
       \/ IsSubstring(normalized_text, normalized_phrase)
    /\ SimilarityAboveThreshold(normalized_phrase, normalized_text)

\* Strategy 3: fuzzy matching with normalized text. The loop stops at the
\* first key that passes the test and has a verse after it: Strategy3Hit is
\* the subhead of that key (0: the loop ends without one).
Strategy3Hit(found, normalized_phrase) ==
    IF ~found
    THEN LET hits == {k \in NormalizedKeys :
                         /\ FuzzyCandidate(normalized_phrase,
                                normalize_apostrophes(subheads[k].cleaned))
                         /\ find_verse_after_subhead(subheads[k].row, verses)
                                # NoMatch}
         IN  IF hits = {} THEN 0 ELSE SetMin(hits)
    ELSE 0

\* The loop of strategy 3 divides by zero (ZeroDivisionError) at a key it
\* reaches, that is, before any key it stops at.
Strategy3Raises(found, normalized_phrase) ==
    /\ ~found
    /\ \E k \in NormalizedKeys :
          LET normalized_text == normalize_apostrophes(subheads[k].cleaned)
          IN  /\ \/ IsSubstring(normalized_phrase, normalized_text)
                 \/ IsSubstring(normalized_text, normalized_phrase)
              /\ SimilarityDenominator(normalized_phrase, normalized_text) = 0
              /\ \A j \in NormalizedKeys :
                    j < k => ~(/\ FuzzyCandidate(normalized_phrase,
                                      normalize_apostrophes(subheads[j].cleaned))
                               /\ find_verse_after_subhead(subheads[j].row, verses)
                                      # NoMatch)

Strategy3(found, normalized_phrase, subhead_phrase) ==
    LET k == Strategy3Hit(found, normalized_phrase)
    IN  IF k # 0
        THEN AppendForSubhead(k, subhead_phrase, subheads[k].original)
        ELSE <<>>

\* Strategy 4: matching with original text (inside the block of strategy 3).
Strategy4(found, subhead_phrase) ==
    IF ~found /\ OriginalMapEntry(subhead_phrase) # 0
    THEN AppendForSubhead(OriginalMapEntry(subhead_phrase), subhead_phrase,
                          subhead_phrase)
    ELSE <<>>

\* The body of the loop over subhead_phrases for one phrase: what it appends
\* to results, whether it appends the phrase to not_found, whether it
\* entered the block of strategy 3, the subhead strategy 3 stopped at, and
\* whether it raised an exception (it has appended nothing then).
SubheadLoopBody(subhead_phrase) ==
    LET cleaned_phrase == clean_text_content(subhead_phrase)
        normalized_phrase == normalize_apostrophes(cleaned_phrase)
        r1 == Strategy1(cleaned_phrase, subhead_phrase)
        r2 == Strategy2(r1 # <<>>, normalized_phrase, subhead_phrase)
        found2 == r1 \o r2 # <<>>
        r3 == Strategy3(found2, normalized_phrase, subhead_phrase)
        r4 == IF ~found2
              THEN Strategy4(r3 # <<>>, subhead_phrase)
              ELSE <<>>
        raised == Strategy3Raises(found2, normalized_phrase)
        appended == IF raised THEN <<>> ELSE r1 \o r2 \o r3 \o r4
    IN  [phrase |-> subhead_phrase,
         appended |-> appended,
         not_found |-> ~raised /\ appended = <<>>,
         fuzzy |-> ~found2,
         fuzzy_hit |-> Strategy3Hit(found2, normalized_phrase),
         raised |-> raised]

(***************************************************************************)
(* match_phrases_to_verses (30DatabaseBuilder).                            *)
(***************************************************************************)
\* normalized_verses: normalize_apostrophes(text.lower())
NormalizedVerseText(i) == normalize_apostrophes(Lower(verses[i].text))

PhraseResult(i, original_phrase) ==
    [reference |-> verses[i].reference,
     phrase |-> original_phrase,
     verse_text |-> verses[i].text]

\* The first loop with the test of containment made in either direction.
ContainingVerse_either_way(normalized_phrase) ==
    LET hits == {i \in 1..Len(verses) :
                    \/ IsSubstring(normalized_phrase, NormalizedVerseText(i))
                    \/ IsSubstring(NormalizedVerseText(i), normalized_phrase)}
    IN  IF hits = {} THEN 0 ELSE SetMin(hits)

\* The first loop without its break: the last verse that contains the phrase.
ContainingVerse_last(normalized_phrase) ==
    LET hits == {i \in 1..Len(verses) :
                    IsSubstring(normalized_phrase, NormalizedVerseText(i))}
    IN  IF hits = {} THEN 0 ELSE SetMax(hits)

\* The first loop: the first verse that contains the phrase (0: none).
ContainingVerse(normalized_phrase) ==
    LET hits == {i \in 1..Len(verses) :
                    IsSubstring(normalized_phrase, NormalizedVerseText(i))}
    IN  IF hits = {} THEN 0 ELSE SetMin(hits)

\* len(common_words) for verse i
CommonWords(normalized_phrase, i) ==
    Cardinality(WordSet(normalized_phrase) \cap WordSet(NormalizedVerseText(i)))

\* len(common_words) / max(len(phrase_words), 1) > 0.6
OverlapAboveThreshold(normalized_phrase, i) ==
    10 * CommonWords(normalized_phrase, i)
        > 6 * IntMax(Cardinality(WordSet(normalized_phrase)), 1)

\* The divisor of score: len(phrase_words)
ScoreDenominator(normalized_phrase) == Cardinality(WordSet(normalized_phrase))

\* The second loop divides by zero (ZeroDivisionError) at some verse.
BestMatchRaises(normalized_phrase) ==
    \E i \in 1..Len(verses) :
        \/ IntMax(Cardinality(WordSet(normalized_phrase)), 1) = 0
        \/ /\ OverlapAboveThreshold(normalized_phrase, i)
           /\ ScoreDenominator(normalized_phrase) = 0

\* The second loop with "score >= best_score".
RECURSIVE BestMatch_last_of_ties(_, _)
BestMatch_last_of_ties(normalized_phrase, n) ==
    IF n = 0 THEN [best_match |-> 0, best_common |-> 0]
    ELSE LET before == BestMatch_last_of_ties(normalized_phrase, n - 1)
         IN  IF /\ OverlapAboveThreshold(normalized_phrase, n)
                /\ CommonWords(normalized_phrase, n) >= before.best_common
             THEN [best_match |-> n,
                   best_common |-> CommonWords(normalized_phrase, n)]
             ELSE before

\* The second loop, up to and including verse n: best_match (0: None) and
\* the numerator of best_score, whose denominator len(phrase_words) is the
\* same for every verse.
RECURSIVE BestMatch(_, _)
BestMatch(normalized_phrase, n) ==
    IF n = 0 THEN [best_match |-> 0, best_common |-> 0]
    ELSE LET before == BestMatch(normalized_phrase, n - 1)
         IN  IF /\ OverlapAboveThreshold(normalized_phrase, n)
                /\ CommonWords(normalized_phrase, n) > before.best_common
             THEN [best_match |-> n,
                   best_common |-> CommonWords(normalized_phrase, n)]
             ELSE before

\* The body of the loop over phrases for one phrase.
PhraseLoopBody(original_phrase) ==
    LET cleaned_phrase == clean_text_content(original_phrase)
        normalized_phrase == normalize_apostrophes(Lower(cleaned_phrase))
        contained == ContainingVerse(normalized_phrase)
        best == BestMatch(normalized_phrase, Len(verses))
        raised == contained = 0 /\ BestMatchRaises(normalized_phrase)
        appended ==
            IF contained # 0 THEN <<PhraseResult(contained, original_phrase)>>
            ELSE IF raised THEN <<>>
            ELSE IF best.best_match # 0
                 THEN <<PhraseResult(best.best_match, original_phrase)>>
                 ELSE <<>>
    IN  [phrase |-> original_phrase,
         appended |-> appended,
         not_found |-> ~raised /\ appended = <<>>,
         fuzzy |-> contained = 0,
         fuzzy_hit |-> IF contained = 0 THEN best.best_match ELSE 0,
         raised |-> raised]

(***************************************************************************)
(* The matchers' loops, one phrase a step.                                 *)
(***************************************************************************)
InitMatch ==
    /\ phrases = <<>>
    /\ results = <<>>
    /\ not_found = <<>>
    /\ trail = <<>>

TakePhrase(body) ==
    /\ phrases' = Append(phrases, body.phrase)
    /\ results' = results \o body.appended
    /\ not_found' = IF body.not_found THEN Append(not_found, body.phrase)
                    ELSE not_found
    /\ trail' = Append(trail, body)

\* No turn of the loop has raised an exception, which would have ended it.
LoopRuns == \A i \in 1..Len(trail) : ~trail[i].raised

\* match_subheads_to_verses: one turn of "for subhead_phrase in ..."
MatchSubhead(subhead_phrase) ==
    /\ script = "subheadfinder"
    /\ ext_pc = "returned"
    /\ LoopRuns
    /\ TakePhrase(SubheadLoopBody(subhead_phrase))
    /\ UNCHANGED ext_vars

\* match_phrases_to_verses: one turn of "for original_phrase in phrases"
MatchPhrase(original_phrase) ==
    /\ script = "DatabaseBuilder"
    /\ ext_pc = "returned"
    /\ LoopRuns
    /\ TakePhrase(PhraseLoopBody(original_phrase))
    /\ UNCHANGED ext_vars

\* Single-letter words, a space between them.
Spaced(letters) ==
    [i \in 1..(2 * Len(letters) - 1) |->
        IF i % 2 = 1 THEN letters[(i + 1) \div 2] ELSE SP]

\* re.sub(r'^\d+\s*', '', phrase).strip()
remove_verse_number(phrase) ==
    LET rest == {i \in 1..Len(phrase) : ~IsDigit(phrase[i])}
        after_digits == IF rest = {} THEN <<>>
                        ELSE SubSeq(phrase, SetMin(rest), Len(phrase))
    IN  Strip(after_digits)

\* The lines of the subhead TXT file.
SubheadLines ==
    {Spaced(<<"a", "b", "c">>), Spaced(<<"a", "b", "c", "d">>),
     Spaced(<<"b", "a", "c">>), <<"h", "RSQ">>,
     Spaced(<<"a", "b", "c", "d", "e", "f", "g">>), <<DQ>>}

\* load_txt_subheads
LoadedSubheads ==
    {clean_text_content(Strip(line)) : line \in {l \in SubheadLines : Strip(l) # <<>>}}

\* The lines of the phrase TXT file.
PhraseLines ==
    {<<"1", SP>> \o Spaced(<<"b", "a", "c">>), Spaced(<<"b", "a">>),
     <<"2">> \o Spaced(<<"a", "b", "c", "d", "e">>),
     Spaced(<<"A", "b", "c">>), <<"2">>}

\* load_txt_phrases
LoadedPhrases ==
    {clean_text_content(remove_verse_number(Strip(line))) :
        line \in {l \in PhraseLines : Strip(l) # <<>>}}

\* The rows a sheet is made of when the matchers are checked.
MatchRowChoices ==
    IF script = "subheadfinder"
    THEN {Row("SUBHEAD", Spaced(<<"a", "b", "c">>)),
          Row("SUBHEAD", Spaced(<<"a", "b", "c", "d", "e">>)),
          Row("SUBHEAD", <<"h", "'">>),
          Row("SUBHEAD", <<"h", "RSQ">>),
          Row("SUBHEAD", Spaced(<<"a", "b", "c", "d", "e", "f", "g", "a", "a", "a">>)),
          Row("VERSE NUMBERS", <<"1">>),
          Row("SCRIPTURE TEXT", <<"a">>)}
    ELSE {Row("VERSE NUMBERS", <<"1">>), Row("VERSE NUMBERS", <<"2">>),
          Row("SCRIPTURE TEXT", Spaced(<<"a", "b">>)),
          Row("SCRIPTURE TEXT", Spaced(<<"A", "b", "c">>)),
          Row("SCRIPTURE TEXT", Spaced(<<"a", "b", "c", "d", "e">>))}

ReadMatchRow ==
    /\ Len(rows) < MaxMatchRows
    /\ \E row \in MatchRowChoices : ExtractRow(row)

\* A sheet, then the first turn of the matcher's loop.
NextMatch ==
    \/ ReadMatchRow /\ UNCHANGED <<norm_vars, match_vars, later_vars>>
    \/ ExtractFinish /\ UNCHANGED <<norm_vars, match_vars, later_vars>>
    \/ ExtractReturn /\ UNCHANGED <<norm_vars, match_vars, later_vars>>
    \/ /\ phrases = <<>>
       /\ \E subhead_phrase \in LoadedSubheads : MatchSubhead(subhead_phrase)
       /\ UNCHANGED <<norm_vars, later_vars>>
    \/ /\ phrases = <<>>
       /\ \E original_phrase \in LoadedPhrases : MatchPhrase(original_phrase)
       /\ UNCHANGED <<norm_vars, later_vars>>

\* The lines of the TXT files and the rows of the sheets the whole loop is
\* followed on.
CountSubheadLines ==
    {Spaced(<<"a", "b", "c">>), Spaced(<<"b", "a", "c">>), <<"h", "RSQ">>,
     <<DQ>>}

CountSubheads ==
    {clean_text_content(Strip(line)) :
        line \in {l \in CountSubheadLines : Strip(l) # <<>>}}

CountPhraseLines ==
    {<<"1", SP>> \o Spaced(<<"b", "a", "c">>), Spaced(<<"b", "a">>),
     Spaced(<<"a", "x">>), <<"2">>}

CountPhrases ==
    {clean_text_content(remove_verse_number(Strip(line))) :
        line \in {l \in CountPhraseLines : Strip(l) # <<>>}}

CountRowChoices ==
    IF script = "subheadfinder"
    THEN {Row("SUBHEAD", Spaced(<<"a", "b", "c">>)),
          Row("SUBHEAD", <<"h", "'">>),
          Row("VERSE NUMBERS", <<"1">>),
          Row("SCRIPTURE TEXT", <<"a">>)}
    ELSE {Row("VERSE NUMBERS", <<"1">>),
          Row("SCRIPTURE TEXT", Spaced(<<"a", "b">>)),
          Row("SCRIPTURE TEXT", Spaced(<<"A", "b", "c">>))}

ReadCountRow ==
    /\ Len(rows) < MaxCountRows
    /\ \E row \in CountRowChoices : ExtractRow(row)

\* A sheet, then the matcher's loop over a list of phrases.
NextCount ==
    \/ ReadCountRow /\ UNCHANGED <<norm_vars, match_vars, later_vars>>
    \/ ExtractFinish /\ UNCHANGED <<norm_vars, match_vars, later_vars>>
    \/ ExtractReturn /\ UNCHANGED <<norm_vars, match_vars, later_vars>>
    \/ /\ Len(phrases) < MaxPhrases
       /\ \E subhead_phrase \in CountSubheads : MatchSubhead(subhead_phrase)
       /\ UNCHANGED <<norm_vars, later_vars>>
    \/ /\ Len(phrases) < MaxPhrases
       /\ \E original_phrase \in CountPhrases : MatchPhrase(original_phrase)
       /\ UNCHANGED <<norm_vars, later_vars>>

(***************************************************************************)
(* match_subheads_to_verses on a sheet that repeats a subhead text: the   *)
(* sheet is long enough for two subheads with a verse after each.          *)
(***************************************************************************)
MaxRepeatRows == 6

RepeatRowChoices ==
    {Row("SUBHEAD", <<"h", "'">>),
     Row("VERSE NUMBERS", <<"1">>), Row("VERSE NUMBERS", <<"2">>),
     Row("SCRIPTURE TEXT", <<"a">>)}

\* The lines of the subhead TXT file: the text as the sheet has it, and with
\* a typographic apostrophe.
RepeatSubheadLines == {<<"h", "'">>, <<"h", "RSQ">>}

NextRepeated ==
    \/ /\ script = "subheadfinder"
       /\ Len(rows) < MaxRepeatRows
       /\ \E row \in RepeatRowChoices : ExtractRow(row)
       /\ UNCHANGED <<norm_vars, match_vars, later_vars>>
    \/ /\ script = "subheadfinder"
       /\ ExtractFinish
       /\ UNCHANGED <<norm_vars, match_vars, later_vars>>
    \/ ExtractReturn /\ UNCHANGED <<norm_vars, match_vars, later_vars>>
    \/ /\ phrases = <<>>
       /\ \E line \in RepeatSubheadLines :
             MatchSubhead(clean_text_content(Strip(line)))
       /\ UNCHANGED <<norm_vars, later_vars>>

(***************************************************************************)
(* process_single_pair: the CSV file written after the matcher returns.    *)
(***************************************************************************)
InitReport == output_file = <<>>

BannerRow == [kind |-> "ERROR"]

BlankRow == [kind |-> "blank"]

HeaderRow == [kind |-> "header"]

NotFoundRow(phrase) == [kind |-> "NOT_FOUND", phrase |-> phrase]

MatchRow(result) ==
    [kind |-> "match",
     reference |-> result.reference,
     phrase |-> IF script = "subheadfinder" THEN result.subhead
                ELSE result.phrase]

\* The block "Unmatched items first" of the file.
UnmatchedRows(nf) ==
    IF nf # <<>>
    THEN <<BannerRow, BlankRow>> \o [i \in 1..Len(nf) |-> NotFoundRow(nf[i])]
            \o <<BlankRow, BlankRow>>
    ELSE <<>>

\* The block "Matches" of the file.
MatchesRows(res) ==
    <<HeaderRow>> \o [i \in 1..Len(res) |-> MatchRow(res[i])]

\* The file with the two blocks in the other order.
WrittenRows_matches_first(res, nf) == MatchesRows(res) \o UnmatchedRows(nf)

WrittenRows(res, nf) == UnmatchedRows(nf) \o MatchesRows(res)

\* The matcher has returned results and not_found, and the file is written.
WriteOutput ==
    /\ ext_pc = "returned"
    /\ output_file = <<>>
    /\ output_file' = WrittenRows(results, not_found)
    /\ UNCHANGED <<ext_vars, match_vars>>

(***************************************************************************)
(* 30DatabaseBuilder_revised: the verses of one XLSX file, then one CSV    *)
(* file for each TXT file of the folder. The statements are modelled as    *)
(* they read; as the file stands, line 112 lacks its closing parenthesis.  *)
(***************************************************************************)
MaxRuns == 2

InitRevised ==
    /\ rev_pc = "start"
    /\ rev_run = 0
    /\ rev_sheet = <<>>
    /\ rev_txt = <<>>
    /\ rev_idx = 0
    /\ rev_current_chapter = <<>>
    /\ rev_current_verse = <<>>
    /\ rev_current_body = <<>>
    /\ rev_verses = <<>>
    /\ rev_file = 0
    /\ rev_dir = {}
    /\ rev_written = {}
    /\ rev_output_rows = {}

\* clean_text
clean_text(text) ==
    Strip(ReplaceChar(ReplaceChar(RemoveChar(RemoveChar(text, "ZWSP"), "SHY"),
                                  "ENDASH", "-"), "EMDASH", "-"))

\* The categories the loop passes over.
SkippedCategories ==
    {"OTHER ELEMENTS", "BOOK TITLES", "SUBHEAD HEADINGS IN BIBLE TEXT"}

\* verses.append((current_chapter, current_verse, current_body.strip()))
RevAppendVerse(vs, chapter, verse, body) ==
    IF verse # <<>> /\ body # <<>>
    THEN Append(vs, [chapter |-> chapter, verse |-> verse[1], body |-> Strip(body)])
    ELSE vs

\* The script is started on a folder: the XLSX file and the TXT files are
\* those of the first run, the CSV files those the earlier runs have left.
RevStart(sheet, txt) ==
    /\ rev_pc \in {"start", "done", "raised"}
    /\ rev_run < MaxRuns
    /\ rev_run' = rev_run + 1
    /\ rev_pc' = "rows"
    /\ rev_sheet' = IF rev_run = 0 THEN sheet ELSE rev_sheet
    /\ rev_txt' = IF rev_run = 0 THEN txt ELSE rev_txt
    /\ rev_idx' = 0
    /\ rev_current_chapter' = <<>>
    /\ rev_current_verse' = <<>>
    /\ rev_current_body' = <<>>
    /\ rev_verses' = <<>>
    /\ rev_file' = 0
    /\ rev_written' = {}
    /\ rev_output_rows' = {}
    /\ UNCHANGED rev_dir

\* The body of the loop over df.iterrows for one row.
RevReadRow ==
    /\ rev_pc = "rows"
    /\ rev_idx < Len(rev_sheet)
    /\ rev_idx' = rev_idx + 1
    /\ LET category == rev_sheet[rev_idx + 1].row_type
           content == clean_text(rev_sheet[rev_idx + 1].content)
       IN  IF category = "CHAPTER NUMBERS"
           THEN /\ rev_current_chapter' = <<content>>
                /\ UNCHANGED <<rev_current_verse, rev_current_body, rev_verses>>
           ELSE IF category \in SkippedCategories
           THEN UNCHANGED <<rev_current_chapter, rev_current_verse,
                            rev_current_body, rev_verses>>
           ELSE IF category = "VERSE NUMBERS"
           THEN /\ rev_verses' = RevAppendVerse(rev_verses, rev_current_chapter,
                                     rev_current_verse, rev_current_body)
                /\ rev_current_verse' = <<content>>
                /\ rev_current_body' = <<>>
                /\ UNCHANGED rev_current_chapter
           ELSE IF category = "SCRIPTURE TEXT FONTS"
           THEN /\ rev_current_body' = rev_current_body \o <<SP>> \o content
                /\ UNCHANGED <<rev_current_chapter, rev_current_verse, rev_verses>>
           ELSE UNCHANGED <<rev_current_chapter, rev_current_verse,
                            rev_current_body, rev_verses>>
    /\ UNCHANGED <<rev_pc, rev_run, rev_sheet, rev_txt, rev_file, rev_dir,
                   rev_written, rev_output_rows>>

\* "Append last verse", and on to the loop over the TXT files.
RevLastVerse ==
    /\ rev_pc = "rows"
    /\ rev_idx = Len(rev_sheet)
    /\ rev_verses' = RevAppendVerse(rev_verses, rev_current_chapter,
                         rev_current_verse, rev_current_body)
    /\ rev_pc' = "files"
    /\ UNCHANGED <<rev_run, rev_sheet, rev_txt, rev_idx, rev_current_chapter,
                   rev_current_verse, rev_current_body, rev_file, rev_dir,
                   rev_written, rev_output_rows>>

\* group(1) of re.match(r'^(\d+)\s*(.*)', line): the digits the line begins
\* with (none: no match, txt_verse_num = None)
LeadingDigits(line) ==
    LET rest == {i \in 1..Len(line) : ~IsDigit(line[i])}
    IN  SubSeq(line, 1, IF rest = {} THEN Len(line) ELSE SetMin(rest) - 1)

NotMatchedRow(line) == [matched |-> FALSE, line |-> line]

\* [f"Genesis {chap}:{verse}", line]
MatchedRow(v, line) ==
    [matched |-> TRUE, chapter |-> v.chapter, verse |-> v.verse, line |-> line]

\* The loop over txt_lines from line k on: output_rows. used is
\* used_verses; high is the pairs (line, verse) for which
\* fuzz.partial_ratio gives 80 or more.
RECURSIVE MatchLines(_, _, _, _)
MatchLines(lines, k, used, high) ==
    IF k > Len(lines) THEN <<>>
    ELSE LET txt_verse_num == LeadingDigits(lines[k])
             hits == {j \in 1..Len(rev_verses) :
                         /\ <<rev_verses[j].chapter, rev_verses[j].verse>> \notin used
                         /\ txt_verse_num # <<>>
                         /\ rev_verses[j].verse = txt_verse_num
                         /\ <<k, j>> \in high}
         IN  IF hits # {}
             THEN LET v == rev_verses[SetMin(hits)]
                  IN  <<MatchedRow(v, lines[k])>>
                        \o MatchLines(lines, k + 1,
                                      used \cup {<<v.chapter, v.verse>>}, high)
             ELSE <<NotMatchedRow(lines[k])>>
                    \o MatchLines(lines, k + 1, used, high)

\* reordered_rows with the matched rows first.
ReorderedRows_matched_first(output_rows) ==
    SelectSeq(output_rows, LAMBDA row : row.matched)
        \o SelectSeq(output_rows, LAMBDA row : ~row.matched)

\* reordered_rows: "Not matched" first, then the rest in original order
ReorderedRows(output_rows) ==
    SelectSeq(output_rows, LAMBDA row : ~row.matched)
        \o SelectSeq(output_rows, LAMBDA row : row.matched)

\* The names of the CSV files of the folder.
RevCsvNames == {f.name : f \in rev_dir}

\* used_verses after the loop over txt_lines: used_verses.add((chap, verse))
\* for every matched row.
UsedAfter(used, output_rows) ==
    used \cup {<<output_rows[i].chapter, output_rows[i].verse>> :
                  i \in {k \in 1..Len(output_rows) : output_rows[k].matched}}

\* One turn of the loop with used_verses kept from the files before.
RevProcessFile_used_kept(failure, high) ==
    /\ rev_pc = "files"
    /\ rev_file < Len(rev_txt)
    /\ rev_file' = rev_file + 1
    /\ LET txt_file == rev_txt[rev_file + 1]
           used_verses == UNION {o.used : o \in rev_output_rows}
           output_rows == MatchLines(txt_file.lines, 1, used_verses, high)
       IN  IF txt_file.name \in RevCsvNames
           THEN UNCHANGED <<rev_pc, rev_dir, rev_written, rev_output_rows>>
           ELSE IF failure = "read"
           THEN /\ rev_pc' = "raised"
                /\ UNCHANGED <<rev_dir, rev_written, rev_output_rows>>
           ELSE IF failure = "write"
           THEN /\ rev_pc' = "raised"
                /\ rev_output_rows' = rev_output_rows \cup
                      {[name |-> txt_file.name, rows |-> output_rows,
                        used |-> UsedAfter(used_verses, output_rows)]}
                /\ UNCHANGED <<rev_dir, rev_written>>
           ELSE /\ rev_output_rows' = rev_output_rows \cup
                      {[name |-> txt_file.name, rows |-> output_rows,
                        used |-> UsedAfter(used_verses, output_rows)]}
                /\ rev_dir' = rev_dir \cup
                      {[name |-> txt_file.name,
                        rows |-> ReorderedRows(output_rows),
                        run |-> rev_run]}
                /\ rev_written' = rev_written \cup {txt_file.name}
                /\ UNCHANGED rev_pc
    /\ UNCHANGED <<rev_run, rev_sheet, rev_txt, rev_idx, rev_current_chapter,
                   rev_current_verse, rev_current_body, rev_verses>>

\* One turn of the loop over txt_files. failure is what the file system does
\* to this turn: "none", "read" (open(txt_file) raises), "write" (to_csv
\* raises). Nothing catches an exception: it ends the script.
RevProcessFile(failure, high) ==
    /\ rev_pc = "files"
    /\ rev_file < Len(rev_txt)
    /\ rev_file' = rev_file + 1
    /\ LET txt_file == rev_txt[rev_file + 1]
           used_verses == {}
           output_rows == MatchLines(txt_file.lines, 1, used_verses, high)
       IN  IF txt_file.name \in RevCsvNames
           THEN UNCHANGED <<rev_pc, rev_dir, rev_written, rev_output_rows>>
           ELSE IF failure = "read"
           THEN /\ rev_pc' = "raised"
                /\ UNCHANGED <<rev_dir, rev_written, rev_output_rows>>
           ELSE IF failure = "write"
           THEN /\ rev_pc' = "raised"
                /\ rev_output_rows' = rev_output_rows \cup
                      {[name |-> txt_file.name, rows |-> output_rows,
                        used |-> UsedAfter(used_verses, output_rows)]}
                /\ UNCHANGED <<rev_dir, rev_written>>
           ELSE /\ rev_output_rows' = rev_output_rows \cup
                      {[name |-> txt_file.name, rows |-> output_rows,
                        used |-> UsedAfter(used_verses, output_rows)]}
                /\ rev_dir' = rev_dir \cup
                      {[name |-> txt_file.name,
                        rows |-> ReorderedRows(output_rows),
                        run |-> rev_run]}
                /\ rev_written' = rev_written \cup {txt_file.name}
                /\ UNCHANGED rev_pc
    /\ UNCHANGED <<rev_run, rev_sheet, rev_txt, rev_idx, rev_current_chapter,
                   rev_current_verse, rev_current_body, rev_verses>>

\* The loop over txt_files is over.
RevEnd ==
    /\ rev_pc = "files"
    /\ rev_file = Len(rev_txt)
    /\ rev_pc' = "done"
    /\ UNCHANGED <<rev_run, rev_sheet, rev_txt, rev_idx, rev_current_chapter,
                   rev_current_verse, rev_current_body, rev_verses, rev_file,
                   rev_dir, rev_written, rev_output_rows>>

\* The XLSX files and the folders of TXT files the script is followed on.
RevSheets ==
    {<<>>,
     <<Row("VERSE NUMBERS", <<"1">>), Row("SCRIPTURE TEXT FONTS", <<"a">>)>>,
     <<Row("CHAPTER NUMBERS", <<"2">>), Row("VERSE NUMBERS", <<"1">>),
       Row("SCRIPTURE TEXT FONTS", <<"a">>), Row("VERSE NUMBERS", <<"2">>),
       Row("SCRIPTURE TEXT FONTS", <<"b">>)>>,
     <<Row("CHAPTER NUMBERS", <<"x", "2">>), Row("VERSE NUMBERS", <<"1">>),
       Row("SCRIPTURE TEXT FONTS", <<"a">>), Row("OTHER ELEMENTS", <<"x">>),
       Row("VERSE NUMBERS", <<"1">>), Row("SCRIPTURE TEXT FONTS", <<"b">>)>>,
     <<Row("BOOK TITLES", <<"B">>), Row("CHAPTER NUMBERS", <<"x">>),
       Row("VERSE NUMBERS", <<"2">>), Row("SCRIPTURE TEXT FONTS", <<"a">>),
       Row("SCRIPTURE TEXT FONTS", <<"b">>), Row("VERSE NUMBERS", <<"1">>)>>}

TxtFile(name, lines) == [name |-> name, lines |-> lines]

RevTxtFile1 ==
    TxtFile("t1", <<<<"1", SP, "a">>, <<"b">>, <<"1", SP, "a">>, <<"2", "b">>>>)

RevTxtFile2 == TxtFile("t2", <<<<"b">>, <<"2", SP, "b">>>>)

RevFolders ==
    {<<>>, <<RevTxtFile1>>, <<RevTxtFile2>>, <<RevTxtFile1, RevTxtFile2>>}

\* The pairs (line, verse) fuzz.partial_ratio can score 80 or more.
RevScores == SUBSET ((1..4) \X (1..2))

NextRevised ==
    \/ (\E sheet \in RevSheets, txt \in RevFolders : RevStart(sheet, txt))
          /\ UNCHANGED <<norm_vars, ext_vars, match_vars, report_vars, tail_vars>>
    \/ RevReadRow /\ UNCHANGED <<norm_vars, ext_vars, match_vars, report_vars, tail_vars>>
    \/ RevLastVerse /\ UNCHANGED <<norm_vars, ext_vars, match_vars, report_vars, tail_vars>>
    \/ (\E failure \in {"none", "read", "write"}, high \in RevScores :
            RevProcessFile(failure, high))
          /\ UNCHANGED <<norm_vars, ext_vars, match_vars, report_vars, tail_vars>>
    \/ RevEnd /\ UNCHANGED <<norm_vars, ext_vars, match_vars, report_vars, tail_vars>>

\* The extractors together: extract_xlsx_structure of 30_subheadfinder or
\* 30DatabaseBuilder reads a sheet, or 30DatabaseBuilder_revised is run.
NextChapters ==
    \/ rev_pc = "start" /\ rev_run = 0 /\ NextExtract
    \/ rows = <<>> /\ ext_pc = "rows" /\ NextRevised

(***************************************************************************)
(* The margin annotators: PDFWriter.py, PDFWriter_01.py and                *)
(* pdf_annotator_enhancements.py.  A cell value is (kind, text): kind      *)
(* "none" (empty), "na" (the string N/A), "int", "float" or "text"; text   *)
(* is its characters as str() gives them.                                  *)
(***************************************************************************)
InitAnnotate ==
    /\ ann_script = "none"
    /\ ann_pc = "start"
    /\ ann_ref = {}
    /\ ann_folder = <<>>
    /\ ann_pairs = <<>>
    /\ ann_idx = 0
    /\ paged_comments = <<>>
    /\ ann_at = 0
    /\ color_counts = <<>>
    /\ added_color_counts = <<>>
    /\ ann_placed = <<>>
    /\ ann_notes = {}
    /\ total_processed = 0
    /\ total_failed = 0
    /\ annotations_added = 0

ColorNames == <<"RED", "YELLOW", "PURPLE", "ORANGE">>

ZeroCounts == [c \in {"RED", "YELLOW", "PURPLE", "ORANGE"} |-> 0]

\* float(x) followed by str(): an int gets ".0", text is not a number
\* (<<>> for the ValueError, <<characters>> otherwise)
FloatStr(value) ==
    IF value.kind = "float" THEN <<value.text>>
    ELSE IF value.kind = "int" THEN <<value.text \o <<".", "0">>>>
    ELSE <<>>

\* load_reference_values: the lines "key: value" whose value is a float
load_reference_values(lines) ==
    {[key |-> l.key, value |-> FloatStr(l.value)[1]] :
        l \in {x \in lines : FloatStr(x.value) # <<>>}}

\* ref_values.get(ref_key): <<>> for None
RefGet(ref_values, ref_key) ==
    LET found == {r \in ref_values : r.key = ref_key}
    IN  IF found = {} THEN <<>> ELSE <<(CHOOSE r \in found : TRUE).value>>

\* The entries of column_mappings the three scripts share.
CommonMappings ==
    ("Footnote Baseline (in)" :> "Footnote")
    @@ ("Book Intro Baseline (in)" :> "Book Intro")
    @@ ("Study Note Baseline (in)" :> "Study Note")
    @@ ("Article Baseline (in)" :> "Article")
    @@ ("Running Head Baseline (in)" :> "Running Head")
    @@ ("Page Number Baseline (in)" :> "Page Number")
    @@ ("Column 1 Max Width (in)" :> "Column 1 Max Width (in)")
    @@ ("Column 2 Max Width (in)" :> "Column 2 Max Width (in)")
    @@ ("Column Gap Width (in)" :> "Column Gap Width (in)")
    @@ ("Box Baseline (in)" :> "Box Baseline")

LeftRightMappings ==
    ("Top Scripture Baseline Left (in)" :> "Top")
    @@ ("Top Scripture Baseline Right (in)" :> "Top")
    @@ ("Bottom Scripture Baseline Left (in)" :> "Bottom")
    @@ ("Bottom Scripture Baseline Right (in)" :> "Bottom")

ColumnNumberMappings ==
    ("Top Scripture Baseline Column 1 (in)" :> "Top")
    @@ ("Top Scripture Baseline Column 2 (in)" :> "Top")
    @@ ("Bottom Scripture Baseline Column 1 (in)" :> "Bottom")
    @@ ("Bottom Scripture Baseline Column 2 (in)" :> "Bottom")

\* get_reference_value: column_mappings of each script
column_mappings(annotator) ==
    IF annotator = "PDFWriter" THEN LeftRightMappings @@ CommonMappings
    ELSE IF annotator = "PDFWriter_01"
         THEN ColumnNumberMappings @@ CommonMappings
                  @@ ("Subhead Baseline (in)" :> "Subhead Baseline (in)")
         ELSE LeftRightMappings @@ ColumnNumberMappings @@ CommonMappings

\* get_reference_value: the columns of page_side_mappings; the key of a
\* column is f"{page_side} Pages - " followed by the column's name
PageSideColumns ==
    {"Column 1 Left Edge (in)", "Column 1 Right Edge (in)",
     "Column 2 Left Edge (in)", "Column 2 Right Edge (in)"}

PageSideKey(column_name, page_side) == <<page_side, " Pages - ", column_name>>

\* get_reference_value: <<>> for None
get_reference_value(annotator, column_name, page_side, ref_values) ==
    LET side_value ==
            IF column_name \in PageSideColumns
            THEN RefGet(ref_values, PageSideKey(column_name, page_side))
            ELSE <<>>
        regular ==
            IF column_name \in DOMAIN column_mappings(annotator)
            THEN RefGet(ref_values, <<column_mappings(annotator)[column_name]>>)
            ELSE <<>>
    IN  IF side_value # <<>> THEN side_value ELSE regular

is_bottom_measurement(annotator, column_name) ==
    \/ column_name \in {"Footnote Baseline (in)", "Book Intro Baseline (in)",
                        "Study Note Baseline (in)", "Article Baseline (in)",
                        "Box Baseline (in)"}
    \/ /\ annotator # "PDFWriter"
       /\ column_name \in {"Bottom Scripture Baseline Column 1 (in)",
                           "Bottom Scripture Baseline Column 2 (in)"}
    \/ /\ annotator # "PDFWriter_01"
       /\ column_name \in {"Bottom Scripture Baseline Left (in)",
                           "Bottom Scripture Baseline Right (in)"}

is_side_measurement(column_name) ==
    column_name \in PageSideColumns
        \cup {"Column 1 Max Width (in)", "Column 2 Max Width (in)",
              "Column Gap Width (in)"}

FromPosition(annotator, column_name) ==
    IF is_bottom_measurement(annotator, column_name) THEN "from the bottom"
    ELSE IF is_side_measurement(column_name) THEN "from the side"
    ELSE "from the top"

PURPLE_TEXT ==
    <<"The two columns on this page do not align and they are not at their typical location.">>

\* The text of an ORANGE cell (pdf_annotator_enhancements has its own).
ORANGE_TEXT(annotator) ==
    IF annotator = "pdf_annotator_enhancements"
    THEN <<"this column is not algined with the other column. The other column is in the correct position">>
    ELSE <<"This column is not aligned with the other column. The other column is in the correct position.">>

\* The comment of a RED or YELLOW cell with the reference value left out.
DetailedComment_without_reference(annotator, column_name, actual_value, reference_value, color_type) ==
    <<color_type, " ", column_name, ". Text is ">> \o actual_value
        \o <<" inches ", FromPosition(annotator, column_name), ". ",
             "No reference available">>

\* The comment of a RED or YELLOW cell; actual_value is the text the f-string
\* gives the value, reference_value is <<>> for None.
DetailedComment(annotator, column_name, actual_value, reference_value, color_type) ==
    <<color_type, " ", column_name, ". Text is ">> \o actual_value
        \o <<" inches ", FromPosition(annotator, column_name), ". ">>
        \o (IF reference_value # <<>>
            THEN <<"Normally text is ">> \o reference_value[1]
            ELSE <<"No reference available">>)

\* create_comment_text of PDFWriter_01; the other two scripts choose the
\* fixed texts and the text without a reference in process_file_pair, to
\* the same effect
create_comment_text(annotator, column_name, actual_value, reference_value, color_type) ==
    IF color_type = "PURPLE" THEN PURPLE_TEXT
    ELSE IF color_type = "ORANGE" THEN ORANGE_TEXT(annotator)
    ELSE DetailedComment(annotator, column_name, actual_value, reference_value,
                         color_type)

EndsWith(text, suffix) ==
    /\ Len(text) >= Len(suffix)
    /\ SubSeq(text, Len(text) - Len(suffix) + 1, Len(text)) = suffix

\* is_red / is_yellow / get_cell_color / detect_cell_color: the label of a
\* fill (its rgb as a list of two-digit groups), "" for None
get_cell_color(annotator, rgb) ==
    IF annotator = "pdf_annotator_enhancements"
    THEN IF EndsWith(rgb, <<"C7", "CE">>) THEN "RED"
         ELSE IF EndsWith(rgb, <<"EB", "9C">>) THEN "YELLOW"
         ELSE IF EndsWith(rgb, <<"FF", "00", "00">>) THEN "RED"
         ELSE IF EndsWith(rgb, <<"FF", "FF", "00">>) THEN "YELLOW"
         ELSE IF EndsWith(rgb, <<"80", "00", "80">>) THEN "PURPLE"
         ELSE IF \/ EndsWith(rgb, <<"FF", "A5", "00">>)
                 \/ EndsWith(rgb, <<"ED", "7D", "31">>)
                 \/ EndsWith(rgb, <<"F4", "B0", "83">>) THEN "ORANGE"
         ELSE ""
    ELSE IF EndsWith(rgb, <<"FF", "C7", "CE">>) THEN "RED"
    ELSE IF EndsWith(rgb, <<"FF", "EB", "9C">>) THEN "YELLOW"
    ELSE IF annotator = "PDFWriter" THEN ""
    ELSE IF EndsWith(rgb, <<"E4", "DF", "EC">>) THEN "PURPLE"
    ELSE IF EndsWith(rgb, <<"FD", "EA", "DA">>) THEN "ORANGE"
    ELSE ""

\* str.lower of a colour label
LowerLabel(color_type) ==
    IF color_type = "RED" THEN "red"
    ELSE IF color_type = "YELLOW" THEN "yellow"
    ELSE IF color_type = "PURPLE" THEN "purple"
    ELSE "orange"

\* ScanCell without the test for the sentinel "N/A".
ScanCell_keeping_sentinel(annotator, ref_values, page_num, page_side, cell) ==
    LET color_type == get_cell_color(annotator, cell.rgb)
        coerced == annotator = "pdf_annotator_enhancements"
        actual_value == IF coerced THEN FloatStr(cell.value)[1]
                        ELSE cell.value.text
        reference_value ==
            get_reference_value(annotator, cell.column, page_side, ref_values)
        entry ==
            [page_num |-> page_num,
             y_inch |-> IF coerced THEN [kind |-> "float", text |-> actual_value]
                        ELSE cell.value,
             comment |-> create_comment_text(annotator, cell.column,
                             actual_value, reference_value, color_type),
             color |-> LowerLabel(color_type),
             is_bottom |-> is_bottom_measurement(annotator, cell.column),
             column_name |-> cell.column,
             page_side |-> page_side]
    IN  IF cell.value.kind \in {"none"} \/ color_type = ""
        THEN [entries |-> <<>>, counted |-> <<>>]
        ELSE IF coerced /\ FloatStr(cell.value) = <<>>
        THEN [entries |-> <<>>, counted |-> <<>>]
        ELSE [entries |-> <<entry>>, counted |-> <<color_type>>]

\* process_file_pair, one cell of a row: the entries it appends to
\* paged_comments (none or one) and the colours it counts as expected.
ScanCell(annotator, ref_values, page_num, page_side, cell) ==
    LET color_type == get_cell_color(annotator, cell.rgb)
        coerced == annotator = "pdf_annotator_enhancements"
        actual_value == IF coerced THEN FloatStr(cell.value)[1]
                        ELSE cell.value.text
        reference_value ==
            get_reference_value(annotator, cell.column, page_side, ref_values)
        entry ==
            [page_num |-> page_num,
             y_inch |-> IF coerced THEN [kind |-> "float", text |-> actual_value]
                        ELSE cell.value,
             comment |-> create_comment_text(annotator, cell.column,
                             actual_value, reference_value, color_type),
             color |-> LowerLabel(color_type),
             is_bottom |-> is_bottom_measurement(annotator, cell.column),
             column_name |-> cell.column,
             page_side |-> page_side]
    IN  IF cell.value.kind \in {"none", "na"} \/ color_type = ""
        THEN [entries |-> <<>>, counted |-> <<>>]
        ELSE IF coerced /\ FloatStr(cell.value) = <<>>
        THEN [entries |-> <<>>, counted |-> <<>>]
        ELSE [entries |-> <<entry>>, counted |-> <<color_type>>]

\* process_file_pair, the cells of one row from the i-th on.
RECURSIVE ScanCells(_, _, _, _, _, _)
ScanCells(annotator, ref_values, page_num, page_side, cells, i) ==
    IF i > Len(cells) THEN [entries |-> <<>>, counted |-> <<>>]
    ELSE LET head == ScanCell(annotator, ref_values, page_num, page_side, cells[i])
             rest == ScanCells(annotator, ref_values, page_num, page_side,
                               cells, i + 1)
         IN  [entries |-> head.entries \o rest.entries,
              counted |-> head.counted \o rest.counted]

\* process_file_pair, the rows from the i-th on; a row whose page number
\* int() rejects (page = <<>>) is skipped.
RECURSIVE ScanRows(_, _, _, _)
ScanRows(annotator, ref_values, sheet, i) ==
    IF i > Len(sheet) THEN [entries |-> <<>>, counted |-> <<>>]
    ELSE LET rest == ScanRows(annotator, ref_values, sheet, i + 1)
             head == IF sheet[i].page = <<>>
                     THEN [entries |-> <<>>, counted |-> <<>>]
                     ELSE ScanCells(annotator, ref_values, sheet[i].page[1],
                                    sheet[i].side, sheet[i].cells, 1)
         IN  [entries |-> head.entries \o rest.entries,
              counted |-> head.counted \o rest.counted]

\* color_counts after the row scan
CountColors(counted) ==
    [c \in DOMAIN ZeroCounts |-> Cardinality({i \in 1..Len(counted) : counted[i] = c})]

\* find_pdf_excel_pairs with every PDF file kept, its spreadsheet missing or
\* not.
find_pdf_excel_pairs_all(pdf_files) == pdf_files

\* find_pdf_excel_pairs: the PDF files whose spreadsheet exists
find_pdf_excel_pairs(pdf_files) ==
    SelectSeq(pdf_files, LAMBDA f : f.excel # "missing")

\* main up to the loop: load_reference_values, find_pdf_excel_pairs,
\* sys.exit(1) with no pair
AnnStart(annotator, lines, pdf_files) ==
    /\ ann_pc = "start"
    /\ ann_script' = annotator
    /\ ann_ref' = load_reference_values(lines)
    /\ ann_folder' = pdf_files
    /\ ann_pairs' = find_pdf_excel_pairs(pdf_files)
    /\ ann_pc' = IF find_pdf_excel_pairs(pdf_files) = <<>> THEN "exit" ELSE "loop"
    /\ UNCHANGED <<ann_idx, paged_comments, ann_at, color_counts,
                   added_color_counts, ann_placed, ann_notes, total_processed,
                   total_failed, annotations_added>>

\* process_file_pair: load the spreadsheet and scan its rows; return False
\* when it cannot be loaded
AnnScan ==
    /\ ann_pc = "loop"
    /\ ann_idx < Len(ann_pairs)
    /\ LET file_pair == ann_pairs[ann_idx + 1]
           scan == ScanRows(ann_script, ann_ref, file_pair.sheet, 1)
       IN  IF file_pair.excel # "ok"
           THEN /\ total_failed' = total_failed + 1
                /\ ann_idx' = ann_idx + 1
                /\ UNCHANGED <<ann_pc, paged_comments, color_counts>>
           ELSE /\ paged_comments' = scan.entries
                /\ color_counts' = CountColors(scan.counted)
                /\ ann_pc' = "open"
                /\ UNCHANGED <<ann_idx, total_failed>>
    /\ UNCHANGED <<ann_script, ann_ref, ann_folder, ann_pairs, ann_at,
                   added_color_counts, ann_placed, ann_notes, total_processed,
                   annotations_added>>

\* process_file_pair: fitz.open; return False when it cannot be opened
AnnOpen ==
    /\ ann_pc = "open"
    /\ IF ann_pairs[ann_idx + 1].pdf # "ok"
       THEN /\ total_failed' = total_failed + 1
            /\ ann_idx' = ann_idx + 1
            /\ ann_pc' = "loop"
            /\ UNCHANGED <<ann_at, added_color_counts, ann_placed,
                           annotations_added>>
       ELSE /\ ann_pc' = "place"
            /\ ann_at' = 0
            /\ added_color_counts' = ZeroCounts
            /\ ann_placed' = <<>>
            /\ annotations_added' = 0
            /\ UNCHANGED <<ann_idx, total_failed>>
    /\ UNCHANGED <<ann_script, ann_ref, ann_folder, ann_pairs, paged_comments,
                   color_counts, ann_notes, total_processed>>

\* The label the placement loop counts an entry under.
CountedLabel(color) ==
    IF color = "red" THEN "RED"
    ELSE IF color = "yellow" THEN "YELLOW"
    ELSE IF color = "purple" THEN "PURPLE"
    ELSE "ORANGE"

\* The words of a column name, as far as the tests for "Column 1" and
\* "Column 2" can tell them apart; any other text is one word.
NameWords ==
    ("Column 1 Max Width (in)" :> <<"Column 1", " Max Width (in)">>)
    @@ ("Column 2 Max Width (in)" :> <<"Column 2", " Max Width (in)">>)
    @@ ("Column 1 Left Edge (in)" :> <<"Column 1", " Left Edge (in)">>)
    @@ ("Column 1 Right Edge (in)" :> <<"Column 1", " Right Edge (in)">>)
    @@ ("Column 2 Left Edge (in)" :> <<"Column 2", " Left Edge (in)">>)
    @@ ("Column 2 Right Edge (in)" :> <<"Column 2", " Right Edge (in)">>)
    @@ ("Top Scripture Baseline Column 1 (in)"
            :> <<"Top Scripture Baseline ", "Column 1", " (in)">>)
    @@ ("Top Scripture Baseline Column 2 (in)"
            :> <<"Top Scripture Baseline ", "Column 2", " (in)">>)
    @@ ("Bottom Scripture Baseline Column 1 (in)"
            :> <<"Bottom Scripture Baseline ", "Column 1", " (in)">>)
    @@ ("Bottom Scripture Baseline Column 2 (in)"
            :> <<"Bottom Scripture Baseline ", "Column 2", " (in)">>)
    @@ ("column 1 width" :> <<"column 1", " width">>)
    @@ ("COLUMN 2 WIDTH" :> <<"COLUMN 2", " WIDTH">>)

Words(text) == IF text \in DOMAIN NameWords THEN NameWords[text] ELSE <<text>>

\* str.lower of a word, where it matters to the tests
LowerWord(word) ==
    IF word \in {"Column 1", "COLUMN 1"} THEN "column 1"
    ELSE IF word \in {"Column 2", "COLUMN 2"} THEN "column 2"
    ELSE word

\* needle in text, text being a list of pieces
Mentions(pieces, needle) ==
    \E i \in 1..Len(pieces) :
        \E j \in 1..Len(Words(pieces[i])) : Words(pieces[i])[j] = needle

\* get_x_tag_from_header of pdf_annotator_enhancements
get_x_tag_from_header(header) ==
    LET h == [j \in 1..Len(Words(header)) |-> LowerWord(Words(header)[j])]
    IN  IF \E j \in 1..Len(h) : h[j] = "column 1" THEN "col1"
        ELSE IF \E j \in 1..Len(h) : h[j] = "column 2" THEN "col2"
        ELSE "center"

\* x_pts with every script looking for the words in the column name as it
\* is written.
x_pts_case_sensitive(annotator, entry) ==
    IF Mentions(<<entry.column_name>>, "Column 1") THEN 0 - 108
    ELSE IF Mentions(<<entry.column_name>>, "Column 2") THEN 108
    ELSE 0

\* x_pts less center_x_inch * inch_to_pts, in points: (center_x_inch - 1.5)
\* * inch_to_pts is 108 points left of the centre.  PDFWriter looks for the
\* words in the comment, PDFWriter_01 in the column name,
\* pdf_annotator_enhancements takes the x_tag of the entry.
x_pts(annotator, entry) ==
    LET text == IF annotator = "PDFWriter" THEN entry.comment
                ELSE <<entry.column_name>>
        x_tag == IF annotator = "pdf_annotator_enhancements"
                 THEN get_x_tag_from_header(entry.column_name)
                 ELSE IF Mentions(text, "Column 1") THEN "col1"
                 ELSE IF Mentions(text, "Column 2") THEN "col2"
                 ELSE "center"
    IN  IF x_tag = "col1" THEN 0 - 108
        ELSE IF x_tag = "col2" THEN 108
        ELSE 0

DigitValue(c) == CHOOSE n \in 0..9 : ToString(n) = c

RECURSIVE WholeNumber(_)
WholeNumber(digits) ==
    IF digits = <<>> THEN 0
    ELSE 10 * WholeNumber(SubSeq(digits, 1, Len(digits) - 1))
             + DigitValue(digits[Len(digits)])

\* The number a cell value is, in tenths: the values of the sheets have at
\* most one digit after the point.
Tenths(text) ==
    LET negative == text[1] = "-"
        body == IF negative THEN Tail(text) ELSE text
        point == {i \in 1..Len(body) : body[i] = "."}
        whole == IF point = {} THEN body ELSE SubSeq(body, 1, SetMin(point) - 1)
        tenth == IF point = {} \/ SetMin(point) = Len(body) THEN 0
                 ELSE DigitValue(body[SetMin(point) + 1])
        magnitude == 10 * WholeNumber(whole) + tenth
    IN  IF negative THEN 0 - magnitude ELSE magnitude

inch_to_pts == 72

\* y_pts_pdf without "Ensure the annotation stays within page bounds".
y_pts_pdf_unclamped(entry, page_height) ==
    IF entry.is_bottom
    THEN 10 * page_height - Tenths(entry.y_inch.text) * inch_to_pts
    ELSE Tenths(entry.y_inch.text) * inch_to_pts

\* y_pts_pdf, in tenths of a point (page_height is in points)
y_pts_pdf(entry, page_height) ==
    LET y == IF entry.is_bottom
             THEN 10 * page_height - Tenths(entry.y_inch.text) * inch_to_pts
             ELSE Tenths(entry.y_inch.text) * inch_to_pts
    IN  IF y < 0 THEN 0
        ELSE IF y > 10 * page_height THEN 10 * page_height
        ELSE y

\* process_file_pair: one turn of "for entry in paged_comments".  The entry
\* is skipped when its page is out of range and when the arithmetic on
\* y_inch raises (a value that is not a number).  raises is what the PDF
\* library does: "before" is an exception before the annotation is on the
\* page, "update" is annot.update() raising, with the annotation on the page
\* and its colour counted.
AnnPlace(raises) ==
    /\ ann_pc = "place"
    /\ ann_at < Len(paged_comments)
    /\ LET entry == paged_comments[ann_at + 1]
           in_range == /\ entry.page_num >= 1
                       /\ entry.page_num <= ann_pairs[ann_idx + 1].pages
           numeric == entry.y_inch.kind \in {"int", "float"}
           annot == [x |-> x_pts(ann_script, entry),
                     y |-> y_pts_pdf(entry, ann_pairs[ann_idx + 1].page_height),
                     updated |-> raises # "update"]
                        @@ entry
       IN  IF in_range /\ numeric /\ raises # "before"
           THEN /\ ann_placed' = Append(ann_placed, annot)
                /\ added_color_counts' =
                       IF ann_script = "PDFWriter" THEN added_color_counts
                       ELSE [added_color_counts EXCEPT
                                ![CountedLabel(entry.color)] = @ + 1]
                /\ annotations_added' =
                       IF raises = "update" THEN annotations_added
                       ELSE annotations_added + 1
           ELSE UNCHANGED <<ann_placed, added_color_counts, annotations_added>>
    /\ ann_at' = ann_at + 1
    /\ UNCHANGED <<ann_script, ann_ref, ann_folder, ann_pairs, ann_idx, ann_pc,
                   paged_comments, color_counts, ann_notes, total_processed,
                   total_failed>>

\* A line of the summary about one colour whose counts differ.
MissingLine(color, expected, actual) ==
    [color |-> color, expected |-> expected, written |-> actual,
     missing |-> expected - actual]

\* PDFWriter_01.add_summary_annotation reporting the cells found as written.
add_summary_annotation_expected_twice(expected_counts, added_counts) ==
    IF \A c \in DOMAIN ZeroCounts : expected_counts[c] = added_counts[c]
    THEN <<[ok |-> "All comments were successfully written into the PDF."]>>
    ELSE <<[header |-> "MISSING ANNOTATIONS:"], [header |-> "ANNOTATION SUMMARY:"]>>
         \o [i \in 1..Len(ColorNames) |->
                IF expected_counts[ColorNames[i]] = added_counts[ColorNames[i]]
                THEN [color |-> ColorNames[i],
                      all |-> expected_counts[ColorNames[i]]]
                ELSE MissingLine(ColorNames[i], expected_counts[ColorNames[i]],
                                 expected_counts[ColorNames[i]])]

\* PDFWriter_01.add_summary_annotation: the text of the summary, line by line
add_summary_annotation(expected_counts, added_counts) ==
    IF \A c \in DOMAIN ZeroCounts : expected_counts[c] = added_counts[c]
    THEN <<[ok |-> "All comments were successfully written into the PDF."]>>
    ELSE <<[header |-> "MISSING ANNOTATIONS:"], [header |-> "ANNOTATION SUMMARY:"]>>
         \o [i \in 1..Len(ColorNames) |->
                IF expected_counts[ColorNames[i]] = added_counts[ColorNames[i]]
                THEN [color |-> ColorNames[i],
                      all |-> expected_counts[ColorNames[i]]]
                ELSE MissingLine(ColorNames[i], expected_counts[ColorNames[i]],
                                 added_counts[ColorNames[i]])]

\* pdf_annotator_enhancements.process_file_pair: the notes on the first page
SummaryNotes(expected_counts, added_counts) ==
    LET differing ==
            SelectSeq(ColorNames,
                      LAMBDA c : expected_counts[c] # added_counts[c])
    IN  IF differing = <<>>
        THEN <<[ok |-> "All annotations successfully written into the PDF.",
                counts |-> added_counts]>>
        ELSE [i \in 1..Len(differing) |->
                 MissingLine(differing[i], expected_counts[differing[i]],
                             added_counts[differing[i]])]

\* process_file_pair after the placement loop: the summary on the first page
\* (PDFWriter has none), doc.save, and main's counting of the outcome
AnnSave(saved) ==
    /\ ann_pc = "place"
    /\ ann_at = Len(paged_comments)
    /\ ann_notes' = ann_notes \cup
           {[base |-> ann_pairs[ann_idx + 1].base,
             sheet |-> ann_pairs[ann_idx + 1].sheet,
             placed |-> ann_placed,
             summary |->
                 IF ann_script = "PDFWriter" THEN <<>>
                 ELSE IF ann_script = "PDFWriter_01"
                      THEN add_summary_annotation(color_counts, added_color_counts)
                      ELSE SummaryNotes(color_counts, added_color_counts)]}
    /\ IF saved
       THEN total_processed' = total_processed + 1 /\ UNCHANGED total_failed
       ELSE total_failed' = total_failed + 1 /\ UNCHANGED total_processed
    /\ ann_idx' = ann_idx + 1
    /\ ann_pc' = "loop"
    /\ UNCHANGED <<ann_script, ann_ref, ann_folder, ann_pairs, paged_comments,
                   ann_at, color_counts, added_color_counts, ann_placed,
                   annotations_added>>

\* main: the end of the loop over file_pairs and the final summary
AnnEnd ==
    /\ ann_pc = "loop"
    /\ ann_idx = Len(ann_pairs)
    /\ ann_pc' = "done"
    /\ UNCHANGED <<ann_script, ann_ref, ann_folder, ann_pairs, ann_idx,
                   paged_comments, ann_at, color_counts, added_color_counts,
                   ann_placed, ann_notes, total_processed, total_failed,
                   annotations_added>>

\* The inputs the annotators are followed on.
Value(kind, text) == [kind |-> kind, text |-> text]

RedFill == <<"FF", "FF", "C7", "CE">>

YellowFill == <<"FF", "FF", "EB", "9C">>

PurpleFill == <<"FF", "E4", "DF", "EC">>

OrangeFill == <<"FF", "ED", "7D", "31">>

NoFill == <<"00", "00", "00", "00">>

SheetCell(column, value, rgb) == [column |-> column, value |-> value, rgb |-> rgb]

SheetRow(page, side, cells) == [page |-> page, side |-> side, cells |-> cells]

ReferenceLines ==
    {[key |-> <<"Top">>, value |-> Value("float", <<"1", ".", "5">>)],
     [key |-> <<"Bottom">>, value |-> Value("float", <<"8", ".", "2">>)],
     [key |-> <<"Footnote">>, value |-> Value("int", <<"8">>)],
     [key |-> <<"Box Baseline">>, value |-> Value("text", <<"x">>)],
     [key |-> PageSideKey("Column 1 Left Edge (in)", "Left"),
      value |-> Value("float", <<"0", ".", "5">>)]}

SheetA ==
    <<SheetRow(<<1>>, "Left",
         <<SheetCell("Top Scripture Baseline Left (in)",
                     Value("float", <<"1", ".", "7">>), RedFill),
           SheetCell("Footnote Baseline (in)", Value("int", <<"2">>), YellowFill)>>)>>

SheetB ==
    <<SheetRow(<<1>>, "Left",
         <<SheetCell("Top Scripture Baseline Column 1 (in)",
                     Value("float", <<"1", ".", "7">>), RedFill),
           SheetCell("Column 1 Left Edge (in)",
                     Value("float", <<"0", ".", "6">>), RedFill)>>),
      SheetRow(<<3>>, "Right",
         <<SheetCell("Footnote Baseline (in)",
                     Value("float", <<"1", ".", "7">>), RedFill)>>)>>

SheetC ==
    <<SheetRow(<<>>, "Left",
         <<SheetCell("Footnote Baseline (in)", Value("int", <<"2">>), RedFill)>>),
      SheetRow(<<2>>, "Right",
         <<SheetCell("Box Baseline (in)", Value("text", <<"x">>), RedFill),
           SheetCell("Column 1 Left Edge (in)", Value("na", <<"N/A">>), RedFill),
           SheetCell("Subhead Baseline (in)",
                     Value("float", <<"1", ".", "7">>), PurpleFill),
           SheetCell("Column 5", Value("int", <<"2">>), OrangeFill),
           SheetCell("Column 6", Value("int", <<"2">>), NoFill)>>)>>

\* A sheet of measurements below zero, beyond the page and on it, from the
\* top and from the bottom, with column names in other capitalisations.
SheetD ==
    <<SheetRow(<<1>>, "Left",
         <<SheetCell("column 1 width", Value("float", <<"1", ".", "7">>), RedFill),
           SheetCell("Column 2 Max Width (in)", Value("int", <<"-", "1">>),
                     YellowFill),
           SheetCell("Page Number Baseline (in)", Value("none", <<>>), RedFill),
           SheetCell("Footnote Baseline (in)", Value("int", <<"2", "0">>), RedFill),
           SheetCell("Running Head Baseline (in)", Value("int", <<"2", "0">>),
                     YellowFill),
           SheetCell("Article Baseline (in)", Value("float", <<"-", "0", ".", "5">>),
                     RedFill)>>)>>

PdfFile(base, excel, pdf, sheet) ==
    [base |-> base, excel |-> excel, pdf |-> pdf, pages |-> 2,
     page_height |-> 720, sheet |-> sheet]

AnnFolders ==
    {<<PdfFile("a", "ok", "ok", SheetA)>>,
     <<PdfFile("b", "missing", "ok", <<>>), PdfFile("a", "ok", "ok", SheetB)>>,
     <<PdfFile("c", "unreadable", "ok", <<>>), PdfFile("b", "missing", "ok", <<>>),
       PdfFile("a", "ok", "ok", SheetC)>>,
     <<PdfFile("d", "ok", "unopenable", SheetA), PdfFile("a", "ok", "ok", SheetB)>>,
     <<PdfFile("a", "ok", "ok", SheetA), PdfFile("e", "ok", "ok", SheetB)>>,
     <<PdfFile("b", "missing", "ok", <<>>)>>,
     <<PdfFile("f", "ok", "ok", SheetD)>>}

NextAnnotate ==
    \/ (\E annotator \in {"PDFWriter", "PDFWriter_01", "pdf_annotator_enhancements"},
           pdf_files \in AnnFolders :
            AnnStart(annotator, ReferenceLines, pdf_files))
          /\ UNCHANGED <<norm_vars, ext_vars, match_vars, report_vars, rev_vars, job_vars,
                         fm_vars, std_vars>>
    \/ AnnScan /\ UNCHANGED <<norm_vars, ext_vars, match_vars, report_vars, rev_vars, job_vars,
                         fm_vars, std_vars>>
    \/ AnnOpen /\ UNCHANGED <<norm_vars, ext_vars, match_vars, report_vars, rev_vars, job_vars,
                         fm_vars, std_vars>>
    \/ (\E raises \in {"no", "before", "update"} : AnnPlace(raises))
          /\ UNCHANGED <<norm_vars, ext_vars, match_vars, report_vars, rev_vars, job_vars,
                         fm_vars, std_vars>>
    \/ (\E saved \in BOOLEAN : AnnSave(saved))
          /\ UNCHANGED <<norm_vars, ext_vars, match_vars, report_vars, rev_vars, job_vars,
                         fm_vars, std_vars>>
    \/ AnnEnd /\ UNCHANGED <<norm_vars, ext_vars, match_vars, report_vars, rev_vars, job_vars,
                         fm_vars, std_vars>>

(***************************************************************************)
(* The per-file loops of rtf_file_conversion.main, 30_subheadfinder.main   *)
(* and csv_spans_matcher.  A file of the batch is (name, usable): usable   *)
(* says that process_file finds verses in the RTF file, or that the        *)
(* subhead CSV has a span file.  A file of the output folder is            *)
(* (kind, of, run): what it is, the input it was made from and the run     *)
(* that wrote it.                                                          *)
(***************************************************************************)
InitJob ==
    /\ job_script = "none"
    /\ job_pc = "start"
    /\ job_run = 0
    /\ job_files = <<>>
    /\ job_at = 0
    /\ job_dir = {}
    /\ job_written = {}

\* The script is started; from the second run on it is the same script on
\* the same input files, with the output files the earlier runs have left.
JobStart(name, files) ==
    /\ job_pc \in {"start", "done", "raised"}
    /\ job_run < MaxRuns
    /\ job_run' = job_run + 1
    /\ job_script' = IF job_run = 0 THEN name ELSE job_script
    /\ job_files' = IF job_run = 0 THEN files ELSE job_files
    /\ job_at' = 0
    /\ job_written' = {}
    /\ job_pc' = "loop"
    /\ UNCHANGED job_dir

\* open(..., "w") or to_excel on a path: the file is written anew.
Rewritten(dir, kind, of, run) ==
    {f \in dir : f.kind # kind \/ f.of # of}
        \cup {[kind |-> kind, of |-> of, run |-> run]}

\* rtf_file_conversion.main: one turn of "for filepath in rtf_files".
\* process_file catches what reading and extracting raise and returns None;
\* df.to_excel is outside any try.
RtfProcessFile(failure) ==
    /\ job_script = "rtf_file_conversion"
    /\ job_pc = "loop"
    /\ job_at < Len(job_files)
    /\ job_at' = job_at + 1
    /\ LET file == job_files[job_at + 1]
           has_verses == failure # "read" /\ file.usable
       IN  IF ~has_verses THEN UNCHANGED <<job_pc, job_dir, job_written>>
           ELSE IF failure = "write"
           THEN job_pc' = "raised" /\ UNCHANGED <<job_dir, job_written>>
           ELSE /\ job_dir' = Rewritten(job_dir, "xlsx", file.name, job_run)
                /\ job_written' = job_written \cup {<<"xlsx", file.name>>}
                /\ UNCHANGED job_pc
    /\ UNCHANGED <<job_script, job_run, job_files>>

\* 30_subheadfinder.main: one turn of "for txt_file, xlsx_file in
\* file_pairs"; process_single_pair is inside try ... except Exception.
SubheadProcessPair(failure) ==
    /\ job_script = "30_subheadfinder"
    /\ job_pc = "loop"
    /\ job_at < Len(job_files)
    /\ job_at' = job_at + 1
    /\ LET file == job_files[job_at + 1]
       IN  IF failure # "none" THEN UNCHANGED <<job_dir, job_written>>
           ELSE /\ job_dir' = Rewritten(job_dir, "verse_matches", file.name, job_run)
                /\ job_written' = job_written \cup {<<"verse_matches", file.name>>}
    /\ UNCHANGED <<job_script, job_pc, job_run, job_files>>

\* clean_subhead_file writing the cleaned file whether it exists or not.
clean_subhead_file_always(dir, raw_file, run) ==
    Rewritten(dir, "clean", raw_file, run)

\* clean_subhead_file: the folder after the call; an existing cleaned file is
\* left as it is
clean_subhead_file(dir, raw_file, run) ==
    IF \E f \in dir : f.kind = "clean" /\ f.of = raw_file THEN dir
    ELSE Rewritten(dir, "clean", raw_file, run)

\* csv_spans_matcher: one turn of "for subhead_file in subhead_files".
\* Nothing catches an exception: "read" is open(raw_file) raising in
\* clean_subhead_file, "write" is match_subheads_with_spans raising.
CsmProcessFile(failure) ==
    /\ job_script = "csv_spans_matcher"
    /\ job_pc = "loop"
    /\ job_at < Len(job_files)
    /\ job_at' = job_at + 1
    /\ LET file == job_files[job_at + 1]
           exists == \E f \in job_dir : f.kind = "clean" /\ f.of = file.name
           cleaned == clean_subhead_file(job_dir, file.name, job_run)
           written == {f \in cleaned : f.run = job_run /\ f \notin job_dir}
       IN  IF ~file.usable THEN UNCHANGED <<job_pc, job_dir, job_written>>
           ELSE IF ~exists /\ failure = "read"
           THEN job_pc' = "raised" /\ UNCHANGED <<job_dir, job_written>>
           ELSE IF failure = "write"
           THEN /\ job_pc' = "raised"
                /\ job_dir' = cleaned
                /\ job_written' = job_written \cup {<<f.kind, f.of>> : f \in written}
           ELSE /\ job_dir' = Rewritten(cleaned, "matched", file.name, job_run)
                /\ job_written' = job_written
                       \cup {<<f.kind, f.of>> : f \in written}
                       \cup {<<"matched", file.name>>}
                /\ UNCHANGED job_pc
    /\ UNCHANGED <<job_script, job_run, job_files>>

\* The loop is over.
JobEnd ==
    /\ job_pc = "loop"
    /\ job_at = Len(job_files)
    /\ job_pc' = "done"
    /\ UNCHANGED <<job_script, job_run, job_files, job_at, job_dir, job_written>>

\* The batches the loops are followed on.
JobFile(name, usable) == [name |-> name, usable |-> usable]

JobFolders ==
    {<<JobFile("01", TRUE)>>,
     <<JobFile("01", TRUE), JobFile("02", TRUE)>>,
     <<JobFile("01", FALSE), JobFile("02", TRUE)>>,
     <<JobFile("01", TRUE), JobFile("02", FALSE), JobFile("03", TRUE)>>}

Failures == {"none", "read", "write"}

NextJob ==
    \/ (\E name \in {"rtf_file_conversion", "30_subheadfinder", "csv_spans_matcher"},
           files \in JobFolders : JobStart(name, files))
          /\ UNCHANGED <<norm_vars, ext_vars, match_vars, report_vars, rev_vars, ann_vars,
                         fm_vars, std_vars>>
    \/ (\E failure \in Failures : RtfProcessFile(failure))
          /\ UNCHANGED <<norm_vars, ext_vars, match_vars, report_vars, rev_vars, ann_vars,
                         fm_vars, std_vars>>
    \/ (\E failure \in Failures : SubheadProcessPair(failure))
          /\ UNCHANGED <<norm_vars, ext_vars, match_vars, report_vars, rev_vars, ann_vars,
                         fm_vars, std_vars>>
    \/ (\E failure \in Failures : CsmProcessFile(failure))
          /\ UNCHANGED <<norm_vars, ext_vars, match_vars, report_vars, rev_vars, ann_vars,
                         fm_vars, std_vars>>
    \/ JobEnd
          /\ UNCHANGED <<norm_vars, ext_vars, match_vars, report_vars, rev_vars, ann_vars,
                         fm_vars, std_vars>>

\* The per-file loops together: one of the scripts is run, once or again.
NextBatch ==
    \/ job_pc = "start" /\ NextRevised
    \/ rev_pc = "start" /\ rev_run = 0 /\ NextJob

(***************************************************************************)
(* find_matching_files of 30_subheadfinder and 30DatabaseBuilder.  A file  *)
(* name is (pre, number, rest, ext): the text before its first run of      *)
(* digits, that run ("" when the name has no digit), the text after it,    *)
(* and the extension in lower case.                                        *)
(***************************************************************************)
MaxFiles == 4

InitPairs ==
    /\ fm_pc = "start"
    /\ fm_script = "none"
    /\ fm_files = <<>>
    /\ fm_txt_files = <<>>
    /\ fm_xlsx_files = <<>>
    /\ fm_at = 0
    /\ matches = <<>>

\* group(1) of re.search(r'(\d+)', name): "" when there is no match
FirstNumber(name) == name.number

\* 'body' in f.lower()
HasBody(name) == name.rest = "-body" \/ name.pre = "body"

\* "Find matching XLSX file" with the first spreadsheet taken whatever its
\* number.
FirstWithNumber_any(txt_file, xlsx_files) ==
    IF xlsx_files = <<>> THEN <<>> ELSE <<xlsx_files[1]>>

\* "Find matching XLSX file with same number": the first spreadsheet whose
\* first number is that of the TXT file, <<>> when there is none
FirstWithNumber(txt_file, xlsx_files) ==
    LET same == {i \in 1..Len(xlsx_files) :
                    /\ FirstNumber(xlsx_files[i]) # ""
                    /\ FirstNumber(xlsx_files[i]) = FirstNumber(txt_file)}
    IN  IF same = {} THEN <<>> ELSE <<xlsx_files[SetMin(same)]>>

\* files = os.listdir('.') and the two filtered lists
FmStart(name, files) ==
    /\ fm_pc = "start"
    /\ fm_script' = name
    /\ fm_files' = files
    /\ fm_txt_files' =
           SelectSeq(files, LAMBDA f :
               /\ f.ext = "txt"
               /\ IF name = "30_subheadfinder" THEN FirstNumber(f) # ""
                  ELSE HasBody(f))
    /\ fm_xlsx_files' =
           SelectSeq(files, LAMBDA f :
               /\ f.ext = "xlsx"
               /\ name = "30_subheadfinder" => FirstNumber(f) # "")
    /\ fm_at' = 0
    /\ matches' = <<>>
    /\ fm_pc' = "loop"

\* One turn of "for txt_file in txt_files".  In 30_subheadfinder every file
\* of txt_files has a number, so that its else branch is never taken.
FmTakeTxt ==
    /\ fm_pc = "loop"
    /\ fm_at < Len(fm_txt_files)
    /\ fm_at' = fm_at + 1
    /\ LET txt_file == fm_txt_files[fm_at + 1]
           found == IF FirstNumber(txt_file) # ""
                    THEN FirstWithNumber(txt_file, fm_xlsx_files)
                    ELSE <<>>
       IN  matches' =
               IF found # <<>>
               THEN Append(matches, [txt |-> txt_file, xlsx |-> found[1]])
               ELSE matches
    /\ UNCHANGED <<fm_pc, fm_script, fm_files, fm_txt_files, fm_xlsx_files>>

\* "If no matches found by numbers, try simple extension-based matching",
\* and return.
FmFallback ==
    /\ fm_pc = "loop"
    /\ fm_at = Len(fm_txt_files)
    /\ fm_pc' = "done"
    /\ LET all_txt == SelectSeq(fm_files, LAMBDA f : f.ext = "txt")
           all_xlsx == SelectSeq(fm_files, LAMBDA f : f.ext = "xlsx")
       IN  matches' =
               IF matches # <<>> THEN matches
               ELSE IF fm_script = "30_subheadfinder"
               THEN IF Len(all_txt) = 1 /\ Len(all_xlsx) = 1
                    THEN <<[txt |-> all_txt[1], xlsx |-> all_xlsx[1]]>>
                    ELSE <<>>
               ELSE IF fm_txt_files # <<>> /\ fm_xlsx_files # <<>>
                    THEN <<[txt |-> fm_txt_files[1], xlsx |-> fm_xlsx_files[1]]>>
                    ELSE <<>>
    /\ UNCHANGED <<fm_script, fm_files, fm_txt_files, fm_xlsx_files, fm_at>>

\* The file names the folders are made of.
FileName(pre, number, rest, ext) ==
    [pre |-> pre, number |-> number, rest |-> rest, ext |-> ext]

FileNames ==
    {FileName("", "01", "-Genesis", "txt"), FileName("", "01", "-Genesis", "xlsx"),
     FileName("", "02", "-Exodus", "xlsx"), FileName("Genesis", "", "", "txt"),
     FileName("notes", "01", "", "xlsx"), FileName("", "01", "-body", "txt"),
     FileName("", "02", "-body", "txt"), FileName("body", "", "", "txt"),
     FileName("Exodus", "", "", "xlsx")}

\* The listings of at most MaxFiles files, no name twice.
Listings ==
    UNION {{l \in [1..n -> FileNames] : \A i, j \in 1..n : l[i] = l[j] => i = j} :
              n \in 0..MaxFiles}

NextPairs ==
    \/ (/\ fm_pc = "start"
        /\ \E name \in {"30_subheadfinder", "30DatabaseBuilder"},
              files \in Listings : FmStart(name, files))
          /\ UNCHANGED <<norm_vars, ext_vars, match_vars, report_vars, rev_vars,
                         ann_vars, job_vars, std_vars>>
    \/ FmTakeTxt
          /\ UNCHANGED <<norm_vars, ext_vars, match_vars, report_vars, rev_vars,
                         ann_vars, job_vars, std_vars>>
    \/ FmFallback
          /\ UNCHANGED <<norm_vars, ext_vars, match_vars, report_vars, rev_vars,
                         ann_vars, job_vars, std_vars>>

(***************************************************************************)
(* load_standards and check_within_standards of csv_spans_matcher.  A line *)
(* of Standards.txt is (head, text): head says which of the two headings   *)
(* the line starts with ("" for neither), text is what follows, or the     *)
(* whole line.  Numbers are in tenths.                                     *)
(***************************************************************************)
InitStandards ==
    /\ std_pc = "lines"
    /\ std_lines = <<>>
    /\ in_coords = FALSE
    /\ standards = <<>>
    /\ variance = 0
    /\ std_checked = {}

MaxStdLines == 4

\* float(text) succeeds: digits, with a sign before or a point and a digit
\* after them
IsNumberText(text) ==
    LET body == IF text # <<>> /\ text[1] = "-" THEN Tail(text) ELSE text
    IN  /\ body # <<>>
        /\ IsDigit(body[1])
        /\ \A i \in 1..Len(body) : IsDigit(body[i]) \/ body[i] = "."
        /\ Cardinality({i \in 1..Len(body) : body[i] = "."}) <= 1

\* load_standards: the body of "for line in lines" for one line.  Both
\* headings end the turn with continue, so that the last if of the body is
\* reached only by a line that starts with neither.
StdReadLine(line) ==
    /\ std_pc = "lines"
    /\ Len(std_lines) < MaxStdLines
    /\ std_lines' = Append(std_lines, line)
    /\ IF line.head = "coords"
       THEN in_coords' = TRUE /\ UNCHANGED <<standards, variance>>
       ELSE IF line.head = "variance"
       THEN in_coords' = FALSE /\ UNCHANGED <<standards, variance>>
       ELSE /\ standards' =
                  IF in_coords /\ IsNumberText(line.text)
                  THEN Append(standards, Tenths(line.text))
                  ELSE standards
            /\ variance' =
                  IF line.head = "variance" /\ IsNumberText(line.text)
                  THEN Tenths(line.text)
                  ELSE variance
            /\ UNCHANGED in_coords
    /\ UNCHANGED <<std_pc, std_checked>>

\* return standards, variance
StdReturn ==
    /\ std_pc = "lines"
    /\ std_pc' = "done"
    /\ UNCHANGED <<std_lines, in_coords, standards, variance, std_checked>>

\* check_within_standards
check_within_standards(x_coord, stds, var) ==
    IF ~IsNumberText(x_coord) THEN "ERROR"
    ELSE IF \E i \in 1..Len(stds) :
                /\ stds[i] - var <= Tenths(x_coord)
                /\ Tenths(x_coord) <= stds[i] + var
         THEN "YES"
         ELSE "ERROR"

\* match_subheads_with_spans asks for the location of a span.
StdCheck(x_coord) ==
    /\ std_pc = "done"
    /\ \A c \in std_checked : c.x_coord # x_coord
    /\ std_checked' = std_checked \cup
           {[x_coord |-> x_coord,
             location |-> check_within_standards(x_coord, standards, variance)]}
    /\ UNCHANGED <<std_pc, std_lines, in_coords, standards, variance>>

\* The lines Standards.txt is made of, and the coordinates asked for.
StdLine(head, text) == [head |-> head, text |-> text]

StdLineChoices ==
    {StdLine("coords", <<>>), StdLine("variance", <<"0", ".", "3">>),
     StdLine("variance", <<>>), StdLine("", <<"1">>),
     StdLine("", <<"2", ".", "5">>), StdLine("", <<"x">>)}

StdCoordinates == {<<"1">>, <<"1", ".", "2">>, <<"2">>, <<"x">>}

NextStandards ==
    \/ (\E line \in StdLineChoices : StdReadLine(line))
          /\ UNCHANGED <<norm_vars, ext_vars, match_vars, report_vars, rev_vars,
                         ann_vars, job_vars, fm_vars>>
    \/ StdReturn
          /\ UNCHANGED <<norm_vars, ext_vars, match_vars, report_vars, rev_vars,
                         ann_vars, job_vars, fm_vars>>
    \/ (\E x_coord \in StdCoordinates : StdCheck(x_coord))
          /\ UNCHANGED <<norm_vars, ext_vars, match_vars, report_vars, rev_vars,
                         ann_vars, job_vars, fm_vars>>

(***************************************************************************)
(* What the claims about the matchers are stated with.                     *)
(***************************************************************************)
\* The name results gives the phrase under.
PhraseField(result) ==
    IF script = "subheadfinder" THEN result.subhead ELSE result.phrase

\* How often x occurs in the list s.
Occurrences(s, x) == Cardinality({i \in 1..Len(s) : s[i] = x})

\* How often the phrase x occurs in results.
ResultsFor(x) ==
    Cardinality({i \in 1..Len(results) : PhraseField(results[i]) = x})

\* The loop of match_subheads_to_verses / match_phrases_to_verses has taken a
\* phrase.
SubheadTurn == script = "subheadfinder" /\ trail # <<>>

PhraseTurn == script = "DatabaseBuilder" /\ trail # <<>>

\* The phrase of the first turn as the matcher compares it.
TurnCleaned == clean_text_content(trail[1].phrase)

TurnSubheadPhrase == normalize_apostrophes(TurnCleaned)

TurnPhrase == normalize_apostrophes(Lower(TurnCleaned))

\* The text of subhead k and of verse i as the matcher compares it.
SubheadText(k) == normalize_apostrophes(subheads[k].cleaned)

VerseText(i) == normalize_apostrophes(Lower(verses[i].text))

\* The words two texts share, and the words of a text counted with repeats.
Overlap(a, b) == Cardinality(WordSet(a) \cap WordSet(b))

WordCount(a) == Len(Split(a))

Longer(a, b) == IF a >= b THEN a ELSE b

ContainsEitherWay(a, b) == IsSubstring(a, b) \/ IsSubstring(b, a)

\* The verses emitted with a row after the row of subhead k.
VersesAfter(k) == {i \in 1..Len(verses) : verses[i].row > subheads[k].row}

\* The subheads whose normalized text no earlier subhead has.
FirstOfText(k) ==
    \A j \in 1..(k - 1) : SubheadText(j) # SubheadText(k)

\* The word-overlap ratio of the phrase and subhead k is above / below 0.7.
RatioAbove(k) ==
    10 * Overlap(TurnSubheadPhrase, SubheadText(k))
        > 7 * Longer(WordCount(TurnSubheadPhrase), WordCount(SubheadText(k)))

RatioBelow(k) ==
    10 * Overlap(TurnSubheadPhrase, SubheadText(k))
        < 7 * Longer(WordCount(TurnSubheadPhrase), WordCount(SubheadText(k)))

\* The share of the phrase's words verse i has is above 0.6.
ShareAbove(i) ==
    10 * Overlap(TurnPhrase, VerseText(i))
        > 6 * Longer(Cardinality(WordSet(TurnPhrase)), 1)

(***************************************************************************)
(* C1. Every phrase a matcher has taken, counted with multiplicity, is in  *)
(* exactly one of results and not_found: len(results) + len(not_found) =   *)
(* len(phrases), and each phrase occurs in the two lists together as often *)
(* as in the input (never twice for one occurrence).                       *)
(***************************************************************************)
C1_EachPhraseOnce ==
    /\ Len(results) + Len(not_found) = Len(phrases)
    /\ \A i \in 1..Len(phrases) :
          ResultsFor(phrases[i]) + Occurrences(not_found, phrases[i])
              = Occurrences(phrases, phrases[i])
    /\ \A i \in 1..Len(results) : Occurrences(phrases, PhraseField(results[i])) > 0
    /\ \A i \in 1..Len(not_found) : Occurrences(phrases, not_found[i]) > 0

\* A list with a repeated phrase, some phrases matched and some not.
C1_Witness ==
    /\ Len(phrases) = 3
    /\ \E i, j \in 1..Len(phrases) : i # j /\ phrases[i] = phrases[j]
    /\ results # <<>>
    /\ not_found # <<>>

(***************************************************************************)
(* C3. Matching priority in match_subheads_to_verses.                      *)
(***************************************************************************)
\* The subheads whose cleaned text is the cleaned phrase.
ExactMatches == {k \in 1..Len(subheads) : subheads[k].cleaned = TurnCleaned}

\* C3 as claimed: whenever the cleaned phrase equals the cleaned text of some
\* subhead of the sheet, strategy 3 is not entered for the phrase and the
\* result recorded for it carries the reference obtained through an exactly
\* matching subhead.
C3_ExactMatchSkipsFuzzy ==
    (SubheadTurn /\ ExactMatches # {}) =>
        /\ ~trail[1].fuzzy
        /\ Len(results) = 1
        /\ \E k \in ExactMatches :
              /\ VersesAfter(k) # {}
              /\ results[1].reference = FirstVerse(VersesAfter(k)).reference

\* C3 as amended: whenever the cleaned phrase equals the cleaned text of some
\* subhead and a verse follows the last subhead with that cleaned text,
\* strategy 3 is not entered and the one result recorded for the phrase
\* carries the reference of the first verse after that subhead, with that
\* subhead's original text.
C3_ExactMatchWithVerseSkipsFuzzy ==
    (SubheadTurn /\ ExactMatches # {}) =>
        LET k == SetMax(ExactMatches)
        IN  VersesAfter(k) # {} =>
                /\ ~trail[1].fuzzy
                /\ trail[1].fuzzy_hit = 0
                /\ not_found = <<>>
                /\ results =
                     <<[reference |-> FirstVerse(VersesAfter(k)).reference,
                        subhead |-> trail[1].phrase,
                        original_xlsx_subhead |-> subheads[k].original]>>

\* An exact match with a verse after it, on a sheet where an earlier subhead
\* differs from the phrase by its apostrophe only.
C3_Witness ==
    /\ SubheadTurn
    /\ ExactMatches # {}
    /\ VersesAfter(SetMax(ExactMatches)) # {}
    /\ \E j \in 1..Len(subheads) :
          /\ j < SetMax(ExactMatches)
          /\ j \notin ExactMatches
          /\ SubheadText(j) = TurnSubheadPhrase
    /\ results # <<>>

(***************************************************************************)
(* C8. The score of the fuzzy matchers and their thresholds.               *)
(***************************************************************************)
\* C8 as claimed: in both matchers a candidate is accepted only when the
\* words it shares with the phrase, divided by the larger of the two word
\* counts, is strictly greater than the threshold (0.6 for verses, 0.7 for
\* subheads).
C8_ScoreOverLongerSide ==
    /\ (SubheadTurn /\ trail[1].fuzzy_hit # 0) =>
          LET t == SubheadText(trail[1].fuzzy_hit)
          IN  10 * Overlap(TurnSubheadPhrase, t)
                > 7 * Longer(Cardinality(WordSet(TurnSubheadPhrase)),
                             Cardinality(WordSet(t)))
    /\ (PhraseTurn /\ trail[1].fuzzy_hit # 0) =>
          LET t == VerseText(trail[1].fuzzy_hit)
          IN  10 * Overlap(TurnPhrase, t)
                > 6 * Longer(Cardinality(WordSet(TurnPhrase)),
                             Cardinality(WordSet(t)))

\* C8 as amended: match_subheads_to_verses accepts a subhead only when the
\* words it shares with the phrase, divided by the larger of the two word
\* counts (repeats counted), is strictly greater than 0.7;
\* match_phrases_to_verses accepts a verse only when the words it shares with
\* the phrase, divided by the number of distinct words of the phrase alone,
\* is strictly greater than 0.6, and it accepts one whenever some verse is
\* above that. A score equal to the threshold is rejected.
C8_ScoreAsComputed ==
    /\ (SubheadTurn /\ trail[1].fuzzy_hit # 0) =>
          LET t == SubheadText(trail[1].fuzzy_hit)
          IN  10 * Overlap(TurnSubheadPhrase, t)
                > 7 * Longer(WordCount(TurnSubheadPhrase), WordCount(t))
    /\ (PhraseTurn /\ trail[1].fuzzy) =>
          /\ trail[1].fuzzy_hit # 0 =>
                10 * Overlap(TurnPhrase, VerseText(trail[1].fuzzy_hit))
                    > 6 * Cardinality(WordSet(TurnPhrase))
          /\ trail[1].fuzzy_hit = 0 =>
                \A i \in 1..Len(verses) :
                    10 * Overlap(TurnPhrase, VerseText(i))
                        <= 6 * Cardinality(WordSet(TurnPhrase))

\* A verse accepted with all the words of the phrase, although it has more
\* words than the phrase and the quotient by its word count is 0.6.
C8_Witness ==
    /\ PhraseTurn
    /\ trail[1].fuzzy_hit # 0
    /\ LET t == VerseText(trail[1].fuzzy_hit)
       IN  /\ Overlap(TurnPhrase, t) = Cardinality(WordSet(TurnPhrase))
           /\ 10 * Overlap(TurnPhrase, t) = 6 * Cardinality(WordSet(t))
    /\ results # <<>>

(***************************************************************************)
(* C9. Which candidate wins when several qualify in fuzzy matching.        *)
(***************************************************************************)
\* The verses whose score is above the threshold of match_phrases_to_verses.
QualifyingVerses == {i \in 1..Len(verses) : ShareAbove(i)}

\* The subheads strategy 3 can stop at: the first of their normalized text,
\* passing the test of strategy 3, with a verse after them.
QualifyingSubheads ==
    {k \in 1..Len(subheads) :
        /\ FirstOfText(k)
        /\ ContainsEitherWay(TurnSubheadPhrase, SubheadText(k))
        /\ RatioAbove(k)
        /\ VersesAfter(k) # {}}

Earliest(S) == IF S = {} THEN 0 ELSE SetMin(S)

\* C9 as claimed: in fuzzy matching the first qualifying candidate in the
\* order of the corpus wins, not the best-scoring one, in
\* match_phrases_to_verses as in match_subheads_to_verses.
C9_FirstQualifyingWins ==
    /\ (PhraseTurn /\ trail[1].fuzzy) =>
          trail[1].fuzzy_hit = Earliest(QualifyingVerses)
    /\ (SubheadTurn /\ trail[1].fuzzy) =>
          trail[1].fuzzy_hit = Earliest(QualifyingSubheads)

\* The qualifying verses no qualifying verse shares more words with the
\* phrase than.
BestVerses ==
    {i \in QualifyingVerses :
        \A j \in QualifyingVerses :
            Overlap(TurnPhrase, VerseText(j)) <= Overlap(TurnPhrase, VerseText(i))}

\* C9 as amended: for a phrase no verse contains, match_phrases_to_verses
\* returns the best-scoring of the verses above the threshold, the earliest
\* of them when several share the best score; match_subheads_to_verses takes
\* the earliest qualifying subhead that has a verse after it, not the
\* best-scoring one.
C9_BestVerseFirstSubhead ==
    /\ (PhraseTurn /\ trail[1].fuzzy) =>
          /\ trail[1].fuzzy_hit = Earliest(BestVerses)
          /\ trail[1].fuzzy_hit # 0 =>
                results = <<[reference |-> verses[trail[1].fuzzy_hit].reference,
                             phrase |-> trail[1].phrase,
                             verse_text |-> verses[trail[1].fuzzy_hit].text]>>
    /\ (SubheadTurn /\ trail[1].fuzzy) =>
          /\ trail[1].fuzzy_hit = Earliest(QualifyingSubheads)
          /\ trail[1].fuzzy_hit # 0 =>
                LET k == trail[1].fuzzy_hit
                IN  results =
                      <<[reference |-> FirstVerse(VersesAfter(k)).reference,
                         subhead |-> trail[1].phrase,
                         original_xlsx_subhead |-> subheads[k].original]>>

\* A later verse wins over an earlier qualifying verse that scores less.
C9_Witness ==
    /\ PhraseTurn
    /\ trail[1].fuzzy_hit # 0
    /\ Earliest(QualifyingVerses) < trail[1].fuzzy_hit
    /\ results # <<>>

(***************************************************************************)
(* C10. Strategy 3 of match_subheads_to_verses, for a phrase with no exact *)
(* and no apostrophe-insensitive match.                                    *)
(***************************************************************************)
\* No subhead has the normalized text of the phrase.
NoNormalizedMatch ==
    \A k \in 1..Len(subheads) : SubheadText(k) # TurnSubheadPhrase

\* C10 as claimed: a candidate with a word-overlap ratio above 0.7 and a
\* verse after it is accepted, a candidate at or below 0.7 is not, and when
\* every candidate's ratio is below 0.7 the phrase is reported in not_found.
C10_AboveThresholdAccepted ==
    (SubheadTurn /\ NoNormalizedMatch) =>
        /\ (\E k \in 1..Len(subheads) : RatioAbove(k) /\ VersesAfter(k) # {})
              => (trail[1].fuzzy_hit # 0 /\ results # <<>>)
        /\ trail[1].fuzzy_hit # 0 => RatioAbove(trail[1].fuzzy_hit)
        /\ (\A k \in 1..Len(subheads) : RatioBelow(k))
              => (results = <<>> /\ not_found = <<trail[1].phrase>>)

\* C10 as amended: a candidate with a ratio above 0.7 and a verse after it is
\* accepted provided the phrase contains its text or its text contains the
\* phrase; a candidate at or below 0.7, or with no containment either way,
\* is not accepted; and when every candidate's ratio is below 0.7 the
\* phrase is reported in not_found.
C10_ContainedAboveThresholdAccepted ==
    (SubheadTurn /\ NoNormalizedMatch) =>
        /\ (\E k \in 1..Len(subheads) :
               /\ ContainsEitherWay(TurnSubheadPhrase, SubheadText(k))
               /\ RatioAbove(k)
               /\ VersesAfter(k) # {})
              => (trail[1].fuzzy_hit # 0 /\ results # <<>>)
        /\ trail[1].fuzzy_hit # 0 =>
              /\ RatioAbove(trail[1].fuzzy_hit)
              /\ ContainsEitherWay(TurnSubheadPhrase,
                                   SubheadText(trail[1].fuzzy_hit))
        /\ (\A k \in 1..Len(subheads) : RatioBelow(k))
              => (results = <<>> /\ not_found = <<trail[1].phrase>>)

\* A subhead with all the words of the phrase in another order and a verse
\* after it: the ratio is 1, neither text contains the other, and the
\* phrase is reported in not_found.
C10_Witness ==
    /\ SubheadTurn
    /\ NoNormalizedMatch
    /\ \E k \in 1..Len(subheads) :
          /\ RatioAbove(k)
          /\ VersesAfter(k) # {}
          /\ ~ContainsEitherWay(TurnSubheadPhrase, SubheadText(k))
    /\ not_found = <<trail[1].phrase>>

(***************************************************************************)
(* C11. In match_phrases_to_verses, whenever the normalized phrase is a    *)
(* substring of the normalized text of at least one verse, the phrase is   *)
(* reported matched with the reference and text of the first such verse,   *)
(* and the fuzzy pass is not used for it.                                  *)
(***************************************************************************)
\* The verses whose normalized text contains the normalized phrase.
VersesContaining == {i \in 1..Len(verses) : IsSubstring(TurnPhrase, VerseText(i))}

C11_ContainedPhraseFirstVerse ==
    (PhraseTurn /\ VersesContaining # {}) =>
        /\ ~trail[1].fuzzy
        /\ trail[1].fuzzy_hit = 0
        /\ not_found = <<>>
        /\ results =
             <<[reference |-> verses[SetMin(VersesContaining)].reference,
                phrase |-> trail[1].phrase,
                verse_text |-> verses[SetMin(VersesContaining)].text]>>

\* Two verses contain the phrase, the first of them with more text than the
\* phrase and in another case of letters.
C11_Witness ==
    /\ PhraseTurn
    /\ Cardinality(VersesContaining) >= 2
    /\ Len(TurnPhrase) < Len(VerseText(SetMin(VersesContaining)))
    /\ \E i \in VersesContaining : verses[i].text # VerseText(i)
    /\ results # <<>>

(***************************************************************************)
(* C12. Containment matching.                                              *)
(***************************************************************************)
\* C12 as claimed: in both matchers a phrase with no exact match is reported
\* matched when it is a substring of a candidate's text or the candidate's
\* text is a substring of it, whatever the word-overlap ratio of the two.
C12_ContainmentSuffices ==
    /\ (PhraseTurn
          /\ \E i \in 1..Len(verses) : ContainsEitherWay(TurnPhrase, VerseText(i)))
          => (results # <<>> /\ not_found = <<>>)
    /\ (SubheadTurn /\ NoNormalizedMatch
          /\ \E k \in 1..Len(subheads) :
                /\ ContainsEitherWay(TurnSubheadPhrase, SubheadText(k))
                /\ VersesAfter(k) # {})
          => (results # <<>> /\ not_found = <<>>)

\* C12 as amended: in match_phrases_to_verses containment is sufficient on
\* its own in one direction only: a phrase that is a substring of a verse's
\* text is reported matched whatever the ratio, while a phrase no verse
\* contains is reported matched exactly when some verse has more than 0.6 of
\* the phrase's words, whether or not a verse's text is a substring of the
\* phrase. In match_subheads_to_verses a phrase with no exact or
\* apostrophe-insensitive match is reported matched exactly when some
\* subhead with a verse after it contains the phrase or is contained in it
\* and has a word-overlap ratio above 0.7 as well.
C12_ContainmentAsComputed ==
    /\ PhraseTurn =>
          /\ VersesContaining # {} => (results # <<>> /\ not_found = <<>>)
          /\ VersesContaining = {} =>
                (results # <<>> <=> \E i \in 1..Len(verses) : ShareAbove(i))
          /\ results = <<>> <=> not_found = <<trail[1].phrase>>
    /\ (SubheadTurn /\ NoNormalizedMatch) =>
          /\ results # <<>> <=>
                \E k \in 1..Len(subheads) :
                    /\ ContainsEitherWay(TurnSubheadPhrase, SubheadText(k))
                    /\ RatioAbove(k)
                    /\ VersesAfter(k) # {}
          /\ results = <<>> <=> not_found = <<trail[1].phrase>>

\* A verse whose text is a substring of the phrase, and the phrase is
\* reported in not_found.
C12_Witness ==
    /\ PhraseTurn
    /\ VersesContaining = {}
    /\ \E i \in 1..Len(verses) : IsSubstring(VerseText(i), TurnPhrase)
    /\ not_found = <<trail[1].phrase>>

\* One of the three reporters runs: process_single_pair of 30_subheadfinder
\* or of 30DatabaseBuilder (the sheet, the matcher's loop, the CSV file), or
\* 30DatabaseBuilder_revised.
NextReport ==
    \/ rev_pc = "start" /\ output_file = <<>> /\ NextCount
    \/ rev_pc = "start" /\ WriteOutput /\ UNCHANGED <<norm_vars, rev_vars, tail_vars>>
    \/ rows = <<>> /\ ext_pc = "rows" /\ NextRevised

(***************************************************************************)
(* C13. In every output file the reporters write, all not-found entries    *)
(* precede all matched entries, and within each of the two groups the      *)
(* entries keep the order of the input phrases or lines: in the CSV file   *)
(* of process_single_pair (30_subheadfinder, 30DatabaseBuilder) and in the *)
(* reordered rows of 30DatabaseBuilder_revised.                            *)
(***************************************************************************)
OfKind(file, kind) == SelectSeq(file, LAMBDA row : row.kind = kind)

\* The turns of the matcher's loop that ended in not_found, and the others.
NotFoundTurns == SelectSeq(trail, LAMBDA turn : turn.not_found)

MatchedTurns == SelectSeq(trail, LAMBDA turn : ~turn.not_found)

\* No entry of the second group is written before one of the first.
Partitioned(file, first(_), second(_)) ==
    \A i, j \in 1..Len(file) : (first(file[i]) /\ second(file[j])) => i < j

C13_NotFoundFirstInOrder ==
    /\ output_file # <<>> =>
          /\ Partitioned(output_file,
                         LAMBDA row : row.kind = "NOT_FOUND",
                         LAMBDA row : row.kind = "match")
          /\ Len(OfKind(output_file, "NOT_FOUND")) = Len(NotFoundTurns)
          /\ \A i \in 1..Len(NotFoundTurns) :
                OfKind(output_file, "NOT_FOUND")[i].phrase = NotFoundTurns[i].phrase
          /\ Len(OfKind(output_file, "match")) = Len(MatchedTurns)
          /\ \A i \in 1..Len(MatchedTurns) :
                /\ OfKind(output_file, "match")[i].phrase = MatchedTurns[i].phrase
                /\ OfKind(output_file, "match")[i].reference
                      = MatchedTurns[i].appended[1].reference
    /\ \A f \in rev_dir :
          Partitioned(f.rows, LAMBDA row : ~row.matched, LAMBDA row : row.matched)
    /\ \A f \in rev_dir : f.name \in rev_written =>
          \E o \in rev_output_rows :
              /\ o.name = f.name
              /\ Len(f.rows) = Len(o.rows)
              /\ SelectSeq(f.rows, LAMBDA row : ~row.matched)
                    = SelectSeq(o.rows, LAMBDA row : ~row.matched)
              /\ SelectSeq(f.rows, LAMBDA row : row.matched)
                    = SelectSeq(o.rows, LAMBDA row : row.matched)

\* A file of process_single_pair with two not-found phrases and a matched
\* one, where a matched phrase came before a not-found one in the input.
C13_Witness ==
    /\ output_file # <<>>
    /\ Len(NotFoundTurns) >= 2
    /\ Len(MatchedTurns) >= 1
    /\ \E i, j \in 1..Len(trail) :
          i < j /\ ~trail[i].not_found /\ trail[j].not_found

(***************************************************************************)
(* C14. An unmatched phrase never raises and is never retried.             *)
(***************************************************************************)
\* The phrases of the turns that appended nothing to results, in order.
UnmatchedPhrases ==
    LET unmatched == SelectSeq(trail, LAMBDA turn : turn.appended = <<>>)
    IN  [i \in 1..Len(unmatched) |-> unmatched[i].phrase]

\* C14: for every input (no subheads, no verses, phrases that clean to the
\* empty string or have no words among them) no turn of either matcher's
\* loop raises an exception (in particular none divides by zero), the loop
\* visits each phrase exactly once and in order, and not_found is exactly the
\* sequence of the phrases that were not matched.
C14_UnmatchedNeverRaises ==
    /\ \A i \in 1..Len(trail) : ~trail[i].raised
    /\ Len(trail) = Len(phrases)
    /\ \A i \in 1..Len(trail) : trail[i].phrase = phrases[i]
    /\ not_found = UnmatchedPhrases

\* match_subheads_to_verses has met a phrase that cleans to the empty string
\* and is contained in every subhead, has computed the similarity, has put
\* the phrase in not_found and has gone on to the next phrase.
C14_Witness ==
    /\ script = "subheadfinder"
    /\ NormalizedKeys # {}
    /\ \E i \in 1..Len(trail) :
          /\ i < Len(trail)
          /\ clean_text_content(trail[i].phrase) = <<>>
          /\ trail[i].fuzzy
          /\ trail[i].not_found
    /\ Occurrences(not_found, <<>>) >= 1

AnnTypeOK == ann_pc \in {"start", "loop", "open", "place", "done", "exit"}

(***************************************************************************)
(* C15. The comment of a RED or YELLOW cell states the measured value and  *)
(* the reference value.                                                    *)
(***************************************************************************)
\* The reference values some annotator's tables give a column on a page side
\* from the loaded reference values (the tables agree where they overlap).
ClaimedReference(column_name, page_side) ==
    {get_reference_value(annotator, column_name, page_side, ann_ref)[1] :
        annotator \in {a \in {"PDFWriter", "PDFWriter_01",
                              "pdf_annotator_enhancements"} :
            get_reference_value(a, column_name, page_side, ann_ref) # <<>>}}

\* C15: in each of the three annotators, the comment composed for a RED or
\* YELLOW cell whose column maps to a reference key that the reference file
\* gives a value contains the measured value and the reference value.
C15_CommentHasBothValues ==
    \A i \in 1..Len(paged_comments) :
        LET entry == paged_comments[i]
        IN  (/\ entry.color \in {"red", "yellow"}
             /\ ClaimedReference(entry.column_name, entry.page_side) # {})
            => /\ IsSubstring(entry.y_inch.text, entry.comment)
               /\ \A reference_value \in
                      ClaimedReference(entry.column_name, entry.page_side) :
                      IsSubstring(reference_value, entry.comment)

\* C15 with each annotator's own tables: the comment composed for a RED or
\* YELLOW cell whose column the running annotator maps to a reference key
\* that the reference file gives a value contains the measured value and the
\* reference value.
C15_CommentHasMappedValues ==
    \A i \in 1..Len(paged_comments) :
        LET entry == paged_comments[i]
            reference_value ==
                get_reference_value(ann_script, entry.column_name,
                                    entry.page_side, ann_ref)
        IN  (entry.color \in {"red", "yellow"} /\ reference_value # <<>>)
            => /\ IsSubstring(entry.y_inch.text, entry.comment)
               /\ IsSubstring(reference_value[1], entry.comment)

\* pdf_annotator_enhancements has composed the comments of a RED cell of a
\* column whose key depends on the page side and of a RED cell of a column
\* only it and PDFWriter_01 map, both with a reference value.
C15_Witness ==
    /\ ann_script = "pdf_annotator_enhancements"
    /\ \E i, j \in 1..Len(paged_comments) :
          /\ paged_comments[i].color = "red"
          /\ paged_comments[i].column_name \in PageSideColumns
          /\ get_reference_value(ann_script, paged_comments[i].column_name,
                 paged_comments[i].page_side, ann_ref) # <<>>
          /\ paged_comments[j].color = "red"
          /\ paged_comments[j].column_name = "Top Scripture Baseline Column 1 (in)"
          /\ IsSubstring(<<"Normally text is ", "1", ".", "5">>,
                         paged_comments[j].comment)

(***************************************************************************)
(* C16. The summary note compares, per colour, the cells found with the    *)
(* annotations written.                                                    *)
(***************************************************************************)
\* The cells of a sheet the row scan classifies: those of a row with a page
\* number, with a value other than empty and N/A.
ScannedCells(sheet) ==
    UNION {{<<r, k>> : k \in {n \in 1..Len(sheet[r].cells) :
                                 sheet[r].cells[n].value.kind \notin {"none", "na"}}} :
              r \in {n \in 1..Len(sheet) : sheet[n].page # <<>>}}

\* The number of cells the row scan classifies under a colour.
ClassifiedCells(annotator, sheet, color) ==
    Cardinality({rk \in ScannedCells(sheet) :
        get_cell_color(annotator, sheet[rk[1]].cells[rk[2]].rgb) = color})

\* The same, counting in pdf_annotator_enhancements only the cells whose
\* value is a number.
KeptCells(annotator, sheet, color) ==
    Cardinality({rk \in ScannedCells(sheet) :
        /\ get_cell_color(annotator, sheet[rk[1]].cells[rk[2]].rgb) = color
        /\ annotator = "pdf_annotator_enhancements"
              => FloatStr(sheet[rk[1]].cells[rk[2]].value) # <<>>})

\* The number of annotations of a colour in the PDF.
WrittenAnnotations(placed, color) ==
    Cardinality({i \in 1..Len(placed) : placed[i].color = LowerLabel(color)})

\* The summary reports success.
ReportsSuccess(summary) == Len(summary) = 1 /\ "ok" \in DOMAIN summary[1]

\* A summary is as C16 says, for a given count of the expected annotations.
SummaryAsClaimed(note, Expected(_, _, _)) ==
    LET differing ==
            {c \in DOMAIN ZeroCounts :
                Expected(ann_script, note.sheet, c)
                    # WrittenAnnotations(note.placed, c)}
    IN  IF differing = {} THEN ReportsSuccess(note.summary)
        ELSE \A c \in differing :
                \E i \in 1..Len(note.summary) :
                    note.summary[i] =
                        MissingLine(c, Expected(ann_script, note.sheet, c),
                                    WrittenAnnotations(note.placed, c))

FilesWith(excel, pdf) ==
    {i \in 1..Len(ann_folder) :
        ann_folder[i].excel \in excel /\ ann_folder[i].pdf \in pdf}

\* Every PDF file that has a loadable spreadsheet and can be opened has been
\* annotated, whatever came before it in the batch.
GoodPairsProcessed ==
    \A i \in FilesWith({"ok"}, {"ok"}) :
        \E note \in ann_notes : note.base = ann_folder[i].base

\* C17 as claimed: at the end of main every PDF whose spreadsheet is missing
\* or cannot be loaded, or that cannot be opened, has been counted in
\* total_failed, the pairs after it have been processed, and
\* total_processed + total_failed is the number of pairs attempted.
C17_FailuresCounted ==
    ann_pc = "done"
        => /\ total_failed >=
                  Cardinality(FilesWith({"missing", "unreadable"}, {"ok", "unopenable"})
                              \cup FilesWith({"ok"}, {"unopenable"}))
           /\ GoodPairsProcessed
           /\ total_processed + total_failed = Len(ann_pairs)

\* C17 without the PDF files that have no spreadsheet: these are not pairs
\* and are counted in neither total; a pair whose spreadsheet cannot be
\* loaded or whose PDF cannot be opened is counted in total_failed, the
\* pairs after it are processed, and total_processed + total_failed is the
\* number of pairs, that is, of PDF files that have a spreadsheet.
C17_PairFailuresCounted ==
    ann_pc = "done"
        => /\ total_failed >=
                  Cardinality(FilesWith({"unreadable"}, {"ok", "unopenable"})
                              \cup FilesWith({"ok"}, {"unopenable"}))
           /\ GoodPairsProcessed
           /\ total_processed + total_failed = Len(ann_pairs)
           /\ Len(ann_pairs) =
                  Cardinality(FilesWith({"unreadable", "ok"}, {"ok", "unopenable"}))

\* A batch of a PDF whose spreadsheet cannot be loaded, a PDF without a
\* spreadsheet and a good pair has ended with one pair failed and one
\* processed.
C17_Witness ==
    /\ ann_pc = "done"
    /\ Len(ann_folder) = 3
    /\ FilesWith({"missing"}, {"ok"}) # {}
    /\ ann_pairs[1].excel = "unreadable"
    /\ total_failed = 1
    /\ total_processed = 1

\* C18: no exception leaves a per-file loop, so that a run that has ended has
\* gone through every file of its folder: neither the loop of the revised
\* line matcher nor the loops of rtf_file_conversion.main,
\* 30_subheadfinder.main and csv_spans_matcher are ended by an exception.
C18_NoLoopRaises ==
    /\ rev_pc # "raised"
    /\ job_pc # "raised"
    /\ rev_pc = "done" => rev_file = Len(rev_txt)
    /\ job_pc = "done" => job_at = Len(job_files)

\* The place of an input file in the batch of the loop (0: not in it).
JobPlace(of) ==
    IF \E i \in 1..Len(job_files) : job_files[i].name = of
    THEN CHOOSE i \in 1..Len(job_files) : job_files[i].name = of
    ELSE 0

\* C19 as stated: nothing is kept from an earlier run. When the revised line
\* matcher or csv_spans_matcher has ended a second or later run, every output
\* file of the folder has been written by that run.
C19_SecondRunRewritesAll ==
    /\ rev_pc = "done" /\ rev_run >= 2 => \A f \in rev_dir : f.run = rev_run
    /\ job_script = "csv_spans_matcher" /\ job_pc = "done" /\ job_run >= 2 =>
          \A f \in job_dir : f.run = job_run

\* What holds of the folders in every state.
OutputsOfThisRun ==
    /\ \A f, g \in rev_dir : f.name = g.name => f = g
    /\ \A f \in rev_dir : f.name \in rev_written <=> f.run = rev_run
    /\ \A f, g \in job_dir : f.kind = g.kind /\ f.of = g.of => f = g
    /\ \A f \in job_dir : <<f.kind, f.of>> \in job_written <=> f.run = job_run
    /\ job_script = "csv_spans_matcher" /\ job_pc \in {"loop", "done"} =>
          \A f \in job_dir :
              f.kind = "matched" /\ JobPlace(f.of) <= job_at => f.run = job_run

\* C19, amended: an output file that exists is kept by two of the scripts.
\* The revised line matcher never writes a CSV file again, in whichever run,
\* and csv_spans_matcher never writes a cleaned-subhead file again; the
\* matched file of csv_spans_matcher is written anew by every run whose loop
\* gets past its subhead file.
C19_ExistingOutputsKept ==
    /\ []OutputsOfThisRun
    /\ [][rev_dir \subseteq rev_dir']_rev_dir
    /\ [][\A f \in job_dir : f.kind = "clean" => f \in job_dir']_job_dir

\* A second run of csv_spans_matcher has ended: the cleaned file is the one
\* of the first run, the matched file is of this run.
C19_Witness ==
    /\ job_script = "csv_spans_matcher"
    /\ job_pc = "done"
    /\ job_run = 2
    /\ \E f \in job_dir : f.kind = "clean" /\ f.run = 1
    /\ \E f \in job_dir : f.kind = "matched" /\ f.run = 2 /\ f.of = "01"

\* The chapter the claim gives after the rows rs: the digits of the last
\* chapter-number row that has a digit, "1" before any such row.
ClaimedChapter(rs) ==
    LET with_digit == {i \in 1..Len(rs) : /\ rs[i].row_type = "CHAPTER NUMBERS"
                                          /\ Digits(rs[i].content) # <<>>}
    IN  IF with_digit = {} THEN <<"1">>
        ELSE Digits(rs[SetMax(with_digit)].content)

DigitString(t) == t # <<>> /\ \A i \in 1..Len(t) : IsDigit(t[i])

\* extract_xlsx_structure of 30_subheadfinder and 30DatabaseBuilder
ExtractorChapterIsDigits ==
    /\ current_chapter = ClaimedChapter(rows)
    /\ \A i \in 1..Len(verses) : DigitString(verses[i].reference.chapter)

\* the verse reconstruction loop of 30DatabaseBuilder_revised
RevisedChapterIsDigits ==
    /\ rev_pc # "start" =>
          rev_current_chapter = <<ClaimedChapter(SubSeq(rev_sheet, 1, rev_idx))>>
    /\ \A i \in 1..Len(rev_verses) :
          /\ rev_verses[i].chapter # <<>>
          /\ DigitString(rev_verses[i].chapter[1])

\* C20: in every extractor the current chapter is the digits of the last
\* chapter-number cell that had a digit ("1" before any), and the chapter of
\* every verse that is emitted is a non-empty string of digits.
C20_ChapterIsDigits ==
    /\ ExtractorChapterIsDigits
    /\ RevisedChapterIsDigits

\* The cells (row, place in the row) of a sheet the row scan has to pass
\* over: those of a row without a page number, the empty ones, those holding
\* "N/A" and those whose fill the script has no label for; in
\* pdf_annotator_enhancements also those whose value float() rejects.
PassedOver(annotator, sheet, r, c) ==
    \/ sheet[r].page = <<>>
    \/ sheet[r].cells[c].value.kind \in {"none", "na"}
    \/ get_cell_color(annotator, sheet[r].cells[c].rgb) = ""
    \/ /\ annotator = "pdf_annotator_enhancements"
       /\ FloatStr(sheet[r].cells[c].value) = <<>>

TakenCells(annotator, sheet) ==
    {rc \in UNION {{<<r, c>> : c \in 1..Len(sheet[r].cells)} : r \in 1..Len(sheet)} :
        ~PassedOver(annotator, sheet, rc[1], rc[2])}

\* C21: after the row scan of a spreadsheet the pending comments are those
\* of the cells that are not passed over, one each, and the expected count
\* of a colour is the number of such cells of that colour: an empty cell, an
\* "N/A" cell and a cell of an unrecognised fill add nothing to either, and
\* the cells after it are still scanned.
C21_SkippedCellsLeaveNoTrace ==
    ann_pc \in {"open", "place"} =>
        LET sheet == ann_pairs[ann_idx + 1].sheet
            taken == TakenCells(ann_script, sheet)
        IN  /\ Len(paged_comments) = Cardinality(taken)
            /\ \A i \in 1..Len(paged_comments) :
                  \E rc \in taken :
                      /\ paged_comments[i].page_num = sheet[rc[1]].page[1]
                      /\ paged_comments[i].column_name
                            = sheet[rc[1]].cells[rc[2]].column
            /\ ann_script # "PDFWriter" =>
                  \A color \in DOMAIN ZeroCounts :
                      color_counts[color]
                          = Cardinality({rc \in taken :
                                get_cell_color(ann_script,
                                    sheet[rc[1]].cells[rc[2]].rgb) = color})

\* PDFWriter_01 has scanned a sheet with an "N/A" cell and a cell without a
\* fill between coloured cells: two comments are pending, one of them of
\* the cell after the "N/A" cell.
C21_Witness ==
    /\ ann_script = "PDFWriter_01"
    /\ ann_pc = "place"
    /\ \E r \in 1..Len(ann_pairs[ann_idx + 1].sheet) :
          \E c \in 1..Len(ann_pairs[ann_idx + 1].sheet[r].cells) :
              /\ ann_pairs[ann_idx + 1].sheet[r].page # <<>>
              /\ ann_pairs[ann_idx + 1].sheet[r].cells[c].value.kind = "na"
              /\ c < Len(ann_pairs[ann_idx + 1].sheet[r].cells)
    /\ Len(paged_comments) = 2
    /\ paged_comments[2].color = "purple"
    /\ color_counts["PURPLE"] = 1

\* The position the claim gives a column name, in points from the centre:
\* 1.5 inches are 108 points.
ClaimedPosition(column_name) ==
    IF Mentions(<<column_name>>, "Column 1") THEN 0 - 108
    ELSE IF Mentions(<<column_name>>, "Column 2") THEN 108
    ELSE 0

\* C22 as claimed: every placed annotation is 1.5 inches left of the centre
\* when its column name mentions "Column 1", 1.5 inches right of it when the
\* name mentions "Column 2" and at the centre otherwise, and PDFWriter_01 and
\* pdf_annotator_enhancements would both have chosen this position.
C22_SamePositionInAllScripts ==
    \A i \in 1..Len(ann_placed) :
        /\ ann_placed[i].x = ClaimedPosition(ann_placed[i].column_name)
        /\ \A annotator \in {"PDFWriter_01", "pdf_annotator_enhancements"} :
              x_pts(annotator, ann_placed[i]) = ann_placed[i].x

\* C22 with the capitalisation told apart: the position is one of the three;
\* PDFWriter (from the comment) and PDFWriter_01 (from the column name)
\* choose it by the words as they are written, pdf_annotator_enhancements by
\* the words of the lower-cased name, and the three agree on every name that
\* has the words written "Column 1", "Column 2" or not at all.
C22_PositionFromName ==
    \A i \in 1..Len(ann_placed) :
        LET annot == ann_placed[i]
            lowered == [j \in 1..Len(Words(annot.column_name)) |->
                           LowerWord(Words(annot.column_name)[j])]
            insensitive ==
                IF Mentions(lowered, "column 1") THEN 0 - 108
                ELSE IF Mentions(lowered, "column 2") THEN 108
                ELSE 0
        IN  /\ annot.x \in {0 - 108, 0, 108}
            /\ ann_script \in {"PDFWriter", "PDFWriter_01"}
                  => annot.x = ClaimedPosition(annot.column_name)
            /\ ann_script = "pdf_annotator_enhancements" => annot.x = insensitive
            /\ insensitive = ClaimedPosition(annot.column_name)
                  => annot.x = ClaimedPosition(annot.column_name)

\* pdf_annotator_enhancements has placed the annotation of "column 1 width"
\* left of the centre and one of a "Column 2" column right of it.
C22_Witness ==
    /\ ann_script = "pdf_annotator_enhancements"
    /\ \E i, j \in 1..Len(ann_placed) :
          /\ ann_placed[i].column_name = "column 1 width"
          /\ ann_placed[i].x = 0 - 108
          /\ ann_placed[j].column_name = "Column 2 Max Width (in)"
          /\ ann_placed[j].x = 108

\* The vertical position the claim gives an annotation, in tenths of a point:
\* page_height - 72 * value for a column of the bottom-anchored set,
\* 72 * value for any other, brought into 0 .. page_height.
ClaimedHeight(annotator, column_name, value, page_height) ==
    LET y == IF is_bottom_measurement(annotator, column_name)
             THEN 10 * page_height - 72 * Tenths(value)
             ELSE 72 * Tenths(value)
    IN  IntMax(0, IntMin(10 * page_height, y))

BaseName(name) == <<name.pre, name.number, name.rest>>

LeadingNumber(name) == IF name.pre = "" THEN name.number ELSE ""

\* No TXT file is in two pairs.
OnePairPerTxt ==
    \A i, j \in 1..Len(matches) : matches[i].txt = matches[j].txt => i = j

SameFirstNumber(pair) ==
    FirstNumber(pair.txt) # "" /\ FirstNumber(pair.txt) = FirstNumber(pair.xlsx)

IsQuotationMark(c) == c \in ApostropheVariants \cup {DQ}

\* C25: the apostrophes and quotation marks of a string, the straight double
\* quote among them, are all in the result of clean_text_content, in the
\* order they had.
C25_QuotesPreserved ==
    (norm_pc \in {"once", "twice"} /\ norm_fn = "clean_text_content")
        => SelectSeq(norm_out, IsQuotationMark) = SelectSeq(norm_in, IsQuotationMark)

\* The lines the claim takes the standards from: the numeric lines whose last
\* heading before them is the heading of the coordinates.
ClaimedStandards(lines) ==
    LET listed(i) ==
            /\ lines[i].head = ""
            /\ IsNumberText(lines[i].text)
            /\ \E h \in 1..(i - 1) :
                  /\ lines[h].head = "coords"
                  /\ \A k \in (h + 1)..(i - 1) : lines[k].head = ""
        at == SelectSeq([i \in 1..Len(lines) |-> i], listed)
    IN  [n \in 1..Len(at) |-> Tenths(lines[at[n]].text)]

\* The variance the claim takes from the lines: the number on the last
\* variance line that has one, 0.0 without one.
ClaimedVariance(lines) ==
    LET stated == {i \in 1..Len(lines) :
                      lines[i].head = "variance" /\ IsNumberText(lines[i].text)}
    IN  IF stated = {} THEN 0 ELSE Tenths(lines[SetMax(stated)].text)

\* C26: load_standards returns the numeric lines between the two headings
\* and the number written on the variance line, and check_within_standards
\* answers YES exactly for the coordinates within that variance of a
\* standard.
C26_StatedVarianceUsed ==
    std_pc = "done" =>
        /\ standards = ClaimedStandards(std_lines)
        /\ variance = ClaimedVariance(std_lines)
        /\ \A c \in std_checked :
              c.location = "YES" <=>
                  /\ IsNumberText(c.x_coord)
                  /\ \E i \in 1..Len(ClaimedStandards(std_lines)) :
                        LET std == ClaimedStandards(std_lines)[i]
                            diff == Tenths(c.x_coord) - std
                        IN  /\ diff <= ClaimedVariance(std_lines)
                            /\ 0 - diff <= ClaimedVariance(std_lines)

\* What load_standards does return: the standards as claimed, the variance
\* 0.0.
StandardsWithoutVariance ==
    std_pc = "done" =>
        /\ standards = ClaimedStandards(std_lines)
        /\ variance = 0

\* The sum of the four counts of a colour table.
SumOfCounts(counts) ==
    counts["RED"] + counts["YELLOW"] + counts["PURPLE"] + counts["ORANGE"]

\* The pending entries of a colour the placement loop has taken and not
\* written: their page is out of range or placing them raised an error.
SkippedEntries(color) ==
    Cardinality({i \in 1..ann_at : paged_comments[i].color = LowerLabel(color)})
        - Cardinality({i \in 1..Len(ann_placed) :
              /\ ann_placed[i].color = LowerLabel(color)
              /\ ann_placed[i].updated})

\* C27: in PDFWriter_01 and pdf_annotator_enhancements, all through the
\* placement loop the written count of a colour is at most the expected
\* count, the sum of the written counts is annotations_added, and at the
\* end of the loop expected minus written is, for every colour, the number
\* of pending entries that were skipped for their page or for an error.
C27_WrittenCountsAddUp ==
    (ann_pc = "place" /\ ann_script \in {"PDFWriter_01", "pdf_annotator_enhancements"})
        => /\ \A color \in DOMAIN ZeroCounts :
                 added_color_counts[color] <= color_counts[color]
           /\ SumOfCounts(added_color_counts) = annotations_added
           /\ ann_at = Len(paged_comments) =>
                 \A color \in DOMAIN ZeroCounts :
                     color_counts[color] - added_color_counts[color]
                         = SkippedEntries(color)

\* The part of C27 that holds: the written count of a colour never exceeds
\* the expected count, and annotations_added never exceeds their sum.
WrittenWithinExpected ==
    (ann_pc = "place" /\ ann_script \in {"PDFWriter_01", "pdf_annotator_enhancements"})
        => /\ \A color \in DOMAIN ZeroCounts :
                 added_color_counts[color] <= color_counts[color]
           /\ annotations_added <= SumOfCounts(added_color_counts)

(***************************************************************************)
(* C28: match_phrases_to_verses reports a phrase as matched only on the    *)
(* evidence of the phrase's own words: a phrase that is empty after the    *)
(* verse number is removed and the text cleaned (a line that is only a     *)
(* number) is reported in not_found and attributed to no verse.            *)
(***************************************************************************)
C28_EmptyPhraseNotFound ==
    (PhraseTurn /\ TurnPhrase = <<>>) =>
        /\ results = <<>>
        /\ not_found = <<trail[1].phrase>>

\* With no verse in the sheet the empty phrase is reported in not_found.
EmptyPhraseWithoutVerses ==
    (PhraseTurn /\ TurnPhrase = <<>> /\ verses = <<>>) =>
        /\ results = <<>>
        /\ not_found = <<trail[1].phrase>>

(***************************************************************************)
(* C29: when the sheet has the same subhead text at several rows,          *)
(* strategy 1 (exact match) and strategy 2 (apostrophe-insensitive match)  *)
(* of match_subheads_to_verses both use the first occurrence in row order: *)
(* the reference returned is that of the verse following the first         *)
(* occurrence.                                                             *)
(***************************************************************************)
\* The subheads whose cleaned text is the cleaned phrase, and those whose
\* normalized text is the normalized phrase.
ExactOccurrences == {k \in 1..Len(subheads) : subheads[k].cleaned = TurnCleaned}

NormalizedOccurrences == NormalizedMatches(TurnSubheadPhrase)

\* The occurrence the claim has the successful strategy use.
ClaimedOccurrence ==
    IF /\ ExactOccurrences # {}
       /\ find_verse_after_subhead(subheads[SetMin(ExactOccurrences)].row,
                                   verses) # NoMatch
    THEN SetMin(ExactOccurrences)
    ELSE SetMin(NormalizedOccurrences)

C29_FirstOccurrenceUsed ==
    (SubheadTurn /\ ~trail[1].fuzzy) =>
        /\ Len(results) = 1
        /\ results[1].reference =
             find_verse_after_subhead(subheads[ClaimedOccurrence].row,
                                      verses).reference

\* Strategy 2 does use the first occurrence: a phrase no subhead equals
\* exactly is given the verse after the first subhead equal to it but for
\* the apostrophes.
Strategy2UsesFirstOccurrence ==
    (SubheadTurn /\ ~trail[1].fuzzy /\ ExactOccurrences = {}) =>
        /\ Len(results) = 1
        /\ results[1].reference =
             find_verse_after_subhead(
                 subheads[SetMin(NormalizedOccurrences)].row, verses).reference

\* Strategy 1 uses the last occurrence when a verse follows it.
Strategy1UsesLastOccurrence ==
    (/\ SubheadTurn
     /\ ExactOccurrences # {}
     /\ find_verse_after_subhead(subheads[SetMax(ExactOccurrences)].row,
                                 verses) # NoMatch) =>
        /\ Len(results) = 1
        /\ results[1].reference =
             find_verse_after_subhead(subheads[SetMax(ExactOccurrences)].row,
                                      verses).reference

(***************************************************************************)
(* C30: the revised line matcher, within one TXT file: each reconstructed  *)
(* verse (chapter, verse) is used by at most one matched output row        *)
(* (used_verses only grows and a used verse is never matched again), a     *)
(* line is matched only to a verse whose verse number equals the line's    *)
(* leading number, a line with no leading number is always reported 'Not   *)
(* matched', every input line yields exactly one output row, and           *)
(* used_verses starts empty again for the next TXT file.                   *)
(***************************************************************************)
\* txt_lines of the TXT file of that name.
LinesOf(name) ==
    rev_txt[CHOOSE k \in 1..Len(rev_txt) : rev_txt[k].name = name].lines

\* The rows of output_rows that name a verse.
MatchedRows(output_rows) ==
    {i \in 1..Len(output_rows) : output_rows[i].matched}

\* The (chapter, verse) of a matched row.
VerseOf(row) == <<row.chapter, row.verse>>

C30_LinesAndVerses ==
    \A o \in rev_output_rows :
        LET txt_lines == LinesOf(o.name)
            matched == MatchedRows(o.rows)
        IN  /\ Len(o.rows) = Len(txt_lines)
            /\ \A i \in 1..Len(txt_lines) : o.rows[i].line = txt_lines[i]
            /\ \A i \in 1..Len(txt_lines) :
                  LeadingDigits(txt_lines[i]) = <<>> => i \notin matched
            /\ \A i \in matched :
                  /\ o.rows[i].verse = LeadingDigits(txt_lines[i])
                  /\ \E j \in 1..Len(rev_verses) :
                        /\ rev_verses[j].chapter = o.rows[i].chapter
                        /\ rev_verses[j].verse = o.rows[i].verse
            /\ \A i, j \in matched :
                  i # j => VerseOf(o.rows[i]) # VerseOf(o.rows[j])
            /\ o.used = {VerseOf(o.rows[i]) : i \in matched}

\* One run has matched both TXT files: a verse is named by a row of each
\* file, and in the first file a later line with the same leading number and
\* a line without a number are reported 'Not matched'.
C30_Witness ==
    \E o1, o2 \in rev_output_rows :
        /\ o1.name # o2.name
        /\ o1.used \cap o2.used # {}
        /\ \E i, j \in 1..Len(o1.rows) :
              /\ i < j
              /\ o1.rows[i].matched
              /\ ~o1.rows[j].matched
              /\ LeadingDigits(o1.rows[j].line) = o1.rows[i].verse
        /\ \E i \in 1..Len(o1.rows) : LeadingDigits(o1.rows[i].line) = <<>>

vars == <<norm_vars, ext_vars, match_vars, later_vars>>

InitLater ==
    InitReport /\ InitRevised /\ InitAnnotate /\ InitJob /\ InitPairs
        /\ InitStandards

Init == InitNorm /\ InitExtract /\ InitMatch /\ InitLater

SpecNorm == Init /\ [][NextNorm]_vars

SpecExtract == Init /\ [][NextExtract]_vars

SpecMatch == Init /\ [][NextMatch]_vars

SpecCount == Init /\ [][NextCount]_vars

SpecRepeated == Init /\ [][NextRepeated]_vars

SpecRevised == Init /\ [][NextRevised]_vars

SpecAnnotate == Init /\ [][NextAnnotate]_vars

SpecBatch == Init /\ [][NextBatch]_vars

SpecChapters == Init /\ [][NextChapters]_vars

SpecPairs == Init /\ [][NextPairs]_vars

SpecStandards == Init /\ [][NextStandards]_vars

SpecReport == Init /\ [][NextReport]_vars

====
